---- MODULE Spec2Model ----
(***************************************************************************)
(* A model of the crawl engine of ai_safety_scraper/scraper.py: the fetch  *)
(* layer (get_page), the content normaliser (extract_text_content), the    *)
(* ten site adapters and their scrape_all orchestration.                   *)
(*                                                                         *)
(* A URL is a sequence of tokens ("https://", "metr.org", "/", "blog",     *)
(* "/", "?", "page=2", ...).  The token boundaries are chosen so that      *)
(* every literal the code searches for ('/blog/', '/blog/?', ...) is a     *)
(* token sequence: Python's substring, startswith, rstrip and replace      *)
(* become the same operations on token sequences.                          *)
(***************************************************************************)
EXTENDS Integers, Sequences, FiniteSets, TLC

VARIABLES
    scraper,        \* the adapter create_scraper built for this session
    step,           \* index of the scrape_all statement now executing
    phase,          \* position inside a discovery statement
    scraped_urls,   \* BaseScraper.scraped_urls
    data,           \* BaseScraper.data, the aggregate document
    requests,       \* the get_page calls in order: url, made for an item, answered
    listing,        \* listing pages fetched by the running discovery loop
    page,           \* the page counter of a paginating discovery loop
    blog_links,     \* URLs discovered and not yet handed to scrape_blog_post
    discovered,     \* every URL the discovery statement has collected
    last_call,      \* the latest scrape_blog_post call: its url, what it met, its result
    last_fetch,     \* the latest get_page call: its url, the response, its result
    written,        \* the documents save_to_json wrote, in order
    raised,         \* the exception that left scrape_all, or "none"
    faults,         \* failed fetches and irregular documents served so far
    applied,        \* a function applied on its own: its arguments, its result
    program,        \* the script run as __main__
    argv,           \* sys.argv[1:]
    pc,             \* where the script is: "start", "loop", "exit"
    websites,       \* scraper.py: the list the for loop goes through
    scrapers,       \* scraper.py: the loop's rounds so far, one per website
    printed,        \* what the script has printed, in order
    exit_status,    \* the status the process exited with, -1 while it runs
    fs              \* the files of the working directory, by name

session_vars ==
    <<scraper, step, phase, scraped_urls, data, requests, listing, page,
      blog_links, discovered, last_call, last_fetch, written, raised, faults>>

process_vars ==
    <<program, argv, pc, websites, scrapers, printed, exit_status, fs>>

vars == <<session_vars, applied, process_vars>>

-----------------------------------------------------------------------------
(* Python values *)

None == [none |-> TRUE]
Str(s) == [str |-> s]
Truthy(v) == v # None /\ v.str # ""

-----------------------------------------------------------------------------
(* Strings of tokens: the str methods the adapters use on URLs *)

RECURSIVE rstrip(_, _)
rstrip(u, t) ==
    IF u # <<>> /\ u[Len(u)] = t THEN rstrip(SubSeq(u, 1, Len(u) - 1), t) ELSE u

RECURSIVE lstrip(_, _)
lstrip(u, t) == IF u # <<>> /\ u[1] = t THEN lstrip(Tail(u), t) ELSE u

strip(u, t) == rstrip(lstrip(u, t), t)

startswith(u, p) == Len(p) <= Len(u) /\ SubSeq(u, 1, Len(p)) = p

endswith(u, p) ==
    Len(p) <= Len(u) /\ SubSeq(u, Len(u) - Len(p) + 1, Len(u)) = p

\* p in u
contains(u, p) ==
    \E i \in 1..(Len(u) + 1) :
        i + Len(p) - 1 <= Len(u) /\ SubSeq(u, i, i + Len(p) - 1) = p

\* u.replace(p, ''), every occurrence, left to right
RECURSIVE remove(_, _)
remove(u, p) ==
    IF u = <<>> \/ p = <<>> THEN u
    ELSE IF startswith(u, p) THEN remove(SubSeq(u, Len(p) + 1, Len(u)), p)
    ELSE <<Head(u)>> \o remove(Tail(u), p)

RECURSIVE UrlStr(_)
UrlStr(u) == IF u = <<>> THEN "" ELSE Head(u) \o UrlStr(Tail(u))

-----------------------------------------------------------------------------
(* The adapters: create_scraper's table, each adapter's base_url *)

Adapters ==
    {"MetrScraper", "AisiScraper", "LakeraScraper", "NistAisiScraper",
     "CanadianAisiScraper", "ApolloScraper", "AnthropicScraper",
     "DeepMindScraper", "CSERScraper", "CHAIScraper"}

base_url(a) ==
    CASE a = "MetrScraper"         -> <<"https://", "metr.org">>
      [] a = "AisiScraper"         -> <<"https://", "www.aisi.gov.uk">>
      [] a = "LakeraScraper"       -> <<"https://", "www.lakera.ai">>
      [] a = "NistAisiScraper"     -> <<"https://", "www.nist.gov", "/", "aisi">>
      [] a = "CanadianAisiScraper" -> <<"https://", "ised-isde.canada.ca">>
      [] a = "ApolloScraper"       -> <<"https://", "www.apolloresearch.ai">>
      [] a = "AnthropicScraper"    -> <<"https://", "www.anthropic.com">>
      [] a = "DeepMindScraper"     -> <<"https://", "deepmind.google">>
      [] a = "CSERScraper"         -> <<"https://", "www.cser.ac.uk">>
      [] a = "CHAIScraper"         -> <<"https://", "humancompatible.ai">>

-----------------------------------------------------------------------------
(* is_blog_post_url, adapter by adapter *)

MetrScraper_is_blog_post_url(url) ==
    IF rstrip(url, "/") = base_url("MetrScraper") \o <<"/", "blog">> THEN FALSE
    ELSE IF \E x \in {<<"/", "page", "/">>, <<"/", "blog", "/", "?">>,
                      <<"/", "blog", "/", "#">>, <<"/", "blog", "/", "$">>} :
                contains(url, x)
    THEN FALSE
    ELSE contains(url, <<"/", "blog", "/">>)

AisiScraper_is_blog_post_url(url) ==
    contains(url, <<"/", "work", "/">>)
    /\ ~endswith(rstrip(url, "/"), <<"/", "work">>)

LakeraScraper_is_blog_post_url(url) ==
    IF rstrip(url, "/") = base_url("LakeraScraper") \o <<"/", "blog">> THEN FALSE
    ELSE contains(url, <<"/", "blog", "/">>)
         /\ ~\E x \in {<<"/", "category", "/">>, <<"/", "author", "/">>} :
                contains(url, x)

NistAisiScraper_is_blog_post_url(url) ==
    contains(url, <<"/", "news", "/">>) \/ contains(url, <<"/", "updates", "/">>)

CanadianAisiScraper_is_blog_post_url(url) ==
    contains(url, <<"cifar.ca", "/", "cifarnews">>)

ApolloScraper_is_blog_post_url(url) ==
    IF rstrip(url, "/") = base_url("ApolloScraper") \o <<"/", "blog">>
       \/ rstrip(url, "/") = base_url("ApolloScraper") \o <<"/", "research">>
    THEN FALSE
    ELSE contains(url, <<"/", "blog", "/">>)
         \/ contains(url, <<"/", "research", "/">>)

AnthropicScraper_is_blog_post_url(url) ==
    IF ~startswith(url, base_url("AnthropicScraper")) THEN FALSE
    ELSE LET path == strip(remove(url, base_url("AnthropicScraper")), "/")
         IN  IF path \in {<<"research">>, <<"news">>} THEN FALSE
             ELSE startswith(path, <<"research", "/">>)
                  \/ startswith(path, <<"news", "/">>)

DeepMindScraper_is_blog_post_url(url) ==
    IF ~startswith(url, base_url("DeepMindScraper")) THEN FALSE
    ELSE LET path == strip(remove(url, base_url("DeepMindScraper")), "/")
         IN  IF path = <<"research", "/", "publications">> THEN FALSE
             ELSE startswith(path, <<"research", "/", "publications", "/">>)

CSERScraper_is_blog_post_url(url) ==
    IF ~startswith(url, base_url("CSERScraper")) THEN FALSE
    ELSE contains(url, <<"/", "resources", "/">>)

CHAIScraper_is_blog_post_url(url) ==
    IF ~startswith(url, base_url("CHAIScraper")) THEN FALSE
    ELSE \E x \in {<<"/", "research", "/">>, <<"/", "progress-report", "/">>} :
            contains(url, x)

is_blog_post_url(a, url) ==
    CASE a = "MetrScraper"         -> MetrScraper_is_blog_post_url(url)
      [] a = "AisiScraper"         -> AisiScraper_is_blog_post_url(url)
      [] a = "LakeraScraper"       -> LakeraScraper_is_blog_post_url(url)
      [] a = "NistAisiScraper"     -> NistAisiScraper_is_blog_post_url(url)
      [] a = "CanadianAisiScraper" -> CanadianAisiScraper_is_blog_post_url(url)
      [] a = "ApolloScraper"       -> ApolloScraper_is_blog_post_url(url)
      [] a = "AnthropicScraper"    -> AnthropicScraper_is_blog_post_url(url)
      [] a = "DeepMindScraper"     -> DeepMindScraper_is_blog_post_url(url)
      [] a = "CSERScraper"         -> CSERScraper_is_blog_post_url(url)
      [] a = "CHAIScraper"         -> CHAIScraper_is_blog_post_url(url)

-----------------------------------------------------------------------------
(* urllib.parse.urljoin on token URLs: <<scheme, host>> then the path       *)
(* tokens, then "?" query or "#" fragment tokens.                          *)

Schemes == {"https://", "http://"}

origin(u) == SubSeq(u, 1, 2)

\* index of the first "?" or "#" token of u, Len(u) + 1 when there is none
RECURSIVE cut_at(_, _, _)
cut_at(u, marks, i) ==
    IF i > Len(u) THEN i
    ELSE IF u[i] \in marks THEN i
    ELSE cut_at(u, marks, i + 1)

path_of(u) == SubSeq(u, 3, cut_at(u, {"?", "#"}, 3) - 1)

\* the path up to and including its last "/"
RECURSIVE dir_of(_)
dir_of(path) ==
    IF path = <<>> THEN <<"/">>
    ELSE IF path[Len(path)] = "/" THEN path
    ELSE dir_of(SubSeq(path, 1, Len(path) - 1))

pop_segment(out) ==
    IF Len(out) >= 2 THEN SubSeq(out, 1, Len(out) - 2) ELSE <<>>

RECURSIVE remove_dot_segments(_, _)
remove_dot_segments(inp, out) ==
    IF inp = <<>> THEN out
    ELSE IF Len(inp) >= 2 /\ inp[1] = "/" /\ inp[2] = ".."
    THEN LET rest == SubSeq(inp, 3, Len(inp))
         IN  IF rest = <<>> THEN pop_segment(out) \o <<"/">>
             ELSE remove_dot_segments(rest, pop_segment(out))
    ELSE IF Len(inp) >= 2 /\ inp[1] = "/" /\ inp[2] = "."
    THEN LET rest == SubSeq(inp, 3, Len(inp))
         IN  IF rest = <<>> THEN out \o <<"/">>
             ELSE remove_dot_segments(rest, out)
    ELSE remove_dot_segments(Tail(inp), Append(out, Head(inp)))

\* an urljoin that leaves the reference as it is written
urljoin_verbatim(base, href) == href
urljoin(base, href) ==
    IF href = <<>> THEN base
    ELSE IF href[1] \in Schemes THEN href
    ELSE IF href[1] = "/"
    THEN LET q == cut_at(href, {"?", "#"}, 1)
         IN  origin(base) \o remove_dot_segments(SubSeq(href, 1, q - 1), <<>>)
             \o SubSeq(href, q, Len(href))
    ELSE IF href[1] = "?"
    THEN SubSeq(base, 1, cut_at(base, {"?", "#"}, 3) - 1) \o href
    ELSE IF href[1] = "#"
    THEN SubSeq(base, 1, cut_at(base, {"#"}, 3) - 1) \o href
    ELSE LET q == cut_at(href, {"?", "#"}, 1)
             merged == dir_of(path_of(base)) \o SubSeq(href, 1, q - 1)
         IN  origin(base) \o remove_dot_segments(merged, <<>>)
             \o SubSeq(href, q, Len(href))

-----------------------------------------------------------------------------
(* The document tree.  A node is [name, text, href, kids]: name "#text"    *)
(* is a NavigableString carrying text; an element carries its children in *)
(* document order and, for an anchor, the tokens of its href attribute     *)
(* (<<>> when the attribute is absent or empty).                           *)

Text(s) == [name |-> "#text", text |-> s, href |-> <<>>, kids |-> <<>>]
Elem(n, ks) == [name |-> n, text |-> "", href |-> <<>>, kids |-> ks]
Anchor(h, ks) == [name |-> "a", text |-> "", href |-> h, kids |-> ks]

\* str.strip() on the text runs the documents of this model use
str_strip(s) ==
    CASE s = " "       -> ""
      [] s = "\n"      -> ""
      [] s = " Alpha " -> "Alpha"
      [] s = " About"  -> "About"
      [] OTHER         -> s

\* text.replace('\n', '\n> ') on a stripped text run
quote_newlines(s) ==
    CASE s = "Alpha\nBeta" -> "Alpha\n> Beta"
      [] OTHER             -> s

RECURSIVE join(_, _)
join(sep, parts) ==
    IF parts = <<>> THEN ""
    ELSE IF Len(parts) = 1 THEN parts[1]
    ELSE parts[1] \o sep \o join(sep, Tail(parts))

\* every descendant of the node, in document order
RECURSIVE descendants(_)
RECURSIVE descendants_of(_)
descendants_of(ks) ==
    IF ks = <<>> THEN <<>>
    ELSE <<Head(ks)>> \o descendants(Head(ks)) \o descendants_of(Tail(ks))
descendants(n) == descendants_of(n.kids)

find_all(n, names) == SelectSeq(descendants(n), LAMBDA k : k.name \in names)

\* element.get_text(strip=True): the stripped strings of the subtree, the
\* empty ones dropped, joined by ''
RECURSIVE texts_of(_)
texts_of(ns) ==
    IF ns = <<>> THEN <<>>
    ELSE (IF Head(ns).name = "#text" /\ str_strip(Head(ns).text) # ""
          THEN <<str_strip(Head(ns).text)>> ELSE <<>>) \o texts_of(Tail(ns))

get_text(n) ==
    IF n.name = "#text" THEN str_strip(n.text)
    ELSE join("", texts_of(descendants(n)))

RECURSIVE map_quote(_)
map_quote(ts) ==
    IF ts = <<>> THEN <<>> ELSE <<quote_newlines(Head(ts))>> \o map_quote(Tail(ts))

-----------------------------------------------------------------------------
(* BaseScraper.extract_text_content: Str(text), or None where the Python   *)
(* function falls off its end without a return statement.                  *)

\* the code fence: three grave accents in the source, a character a TLA+
\* string cannot hold
FENCE == "'''"

\* the branch for an anchor when with_links is set
extract_anchor(self_base_url, element) ==
    LET href == element.href
        text == get_text(element)
    IN  IF href # <<>> /\ text # ""
        THEN Str("[" \o text \o "](" \o UrlStr(urljoin(self_base_url, href)) \o ")")
        ELSE Str(text)

RECURSIVE row_texts(_)
row_texts(rows) ==
    IF rows = <<>> THEN <<>>
    ELSE <<join("\t", [i \in 1..Len(find_all(Head(rows), {"td", "th"})) |->
                         get_text(find_all(Head(rows), {"td", "th"})[i])])>>
         \o row_texts(Tail(rows))

RECURSIVE item_lines(_)
item_lines(items) ==
    IF items = <<>> THEN <<>>
    ELSE (IF get_text(Head(items)) # ""
          THEN <<"- " \o get_text(Head(items))>> ELSE <<>>)
         \o item_lines(Tail(items))

RECURSIVE inline_parts(_, _)
inline_parts(self_base_url, contents) ==
    IF contents = <<>> THEN <<>>
    ELSE LET content == Head(contents)
         IN  (IF content.name = "#text"
              THEN (IF str_strip(content.text) # ""
                    THEN <<str_strip(content.text)>> ELSE <<>>)
              ELSE IF content.name = "a"
              THEN <<extract_anchor(self_base_url, content).str>>
              ELSE <<>>)
             \o inline_parts(self_base_url, Tail(contents))

extract_text_content(self_base_url, element, with_links) ==
    IF element.name = "table"
    THEN Str(join("\n", row_texts(find_all(element, {"tr"}))))
    ELSE IF element.name \in {"ul", "ol"}
    THEN Str(join("\n", item_lines(find_all(element, {"li"}))))
    ELSE IF element.name = "blockquote"
    THEN IF get_text(element) # ""
         THEN Str("> " \o join("", map_quote(texts_of(descendants(element)))))
         ELSE None
    ELSE IF element.name \in {"pre", "code"}
    THEN IF get_text(element) # ""
         THEN Str(FENCE \o "\n" \o get_text(element) \o "\n" \o FENCE)
         ELSE None
    ELSE IF element.name = "a" /\ with_links
    THEN extract_anchor(self_base_url, element)
    ELSE IF with_links /\ find_all(element, {"a"}) # <<>>
    THEN Str(join(" ", inline_parts(self_base_url, element.kids)))
    ELSE Str(get_text(element))

-----------------------------------------------------------------------------
(* Bounds of the model *)

\* failed fetches and irregular documents the web may serve in one session
MaxFaults == 2
\* entries taken from the head of each literal URL list of an adapter
MaxHardcoded == 2
\* listing pages one discovery loop may request
MaxListingPages == 3

-----------------------------------------------------------------------------
(* What a function call does: it returns a value or lets an exception out *)

Return(v) == [kind |-> "return", value |-> v]
Raise(e) == [kind |-> "raise", exc |-> e]

-----------------------------------------------------------------------------
(* The documents the web serves.  A document is described by what the      *)
(* adapters' selectors find in it:                                         *)
(*   container    the content container the scrape function looks up       *)
(*   elems        the structural elements find_all returns inside it       *)
(*   headings     the text of the h1..h6 elements                          *)
(*   links        the anchors of the listing area, hrefs as written        *)
(*   has_items    a listing page shows at least one item card              *)
(*   next_page    0, or the page number the next-page control carries      *)
(*   category_row AisiScraper: "absent", "empty" (no anchor) or "linked"   *)
(*   teaser_h3    NistAisiScraper: every teaser has its h3 title           *)

P_Alpha == Elem("p", <<Text(" Alpha ")>>)
P_Beta == Elem("p", <<Text("Beta")>>)
Q_Empty == Elem("blockquote", <<Text(" ")>>)

Doc(container, elems, links, has_items, next_page) ==
    [container |-> container, elems |-> elems, headings |-> <<"Title">>,
     links |-> links, has_items |-> has_items, next_page |-> next_page,
     category_row |-> "linked", teaser_h3 |-> TRUE]

RegularDoc == Doc(TRUE, <<P_Alpha, P_Beta>>, <<>>, FALSE, 0)

\* a page without the container; a page whose container holds an empty quote
NoContainerDoc == Doc(FALSE, <<>>, <<>>, FALSE, 0)
EmptyQuoteDoc == Doc(TRUE, <<P_Alpha, Q_Empty>>, <<>>, FALSE, 0)
RepeatDoc == Doc(TRUE, <<P_Alpha, P_Alpha>>, <<>>, FALSE, 0)

IrregularDocs(a, fn) ==
    {NoContainerDoc, EmptyQuoteDoc}
    \cup (IF a = "AisiScraper" /\ fn = "scrape_article"
          THEN {[RegularDoc EXCEPT !.category_row = "empty"],
                [NoContainerDoc EXCEPT !.category_row = "empty"]}
          ELSE {})
    \cup (IF a = "NistAisiScraper" /\ fn = "scrape_home_page"
          THEN {[RegularDoc EXCEPT !.teaser_h3 = FALSE]}
          ELSE {})

-----------------------------------------------------------------------------
(* BaseScraper.get_page: the response of session.get is a transport error, *)
(* a non-success status (raise_for_status raises) or a page; every         *)
(* exception is caught inside and None returned.                           *)

TransportError == [outcome |-> "transport_error"]
HttpError == [outcome |-> "http_error"]
Page(doc) == [outcome |-> "ok", doc |-> doc]

\* a get_page that lets the exception of raise_for_status out
get_page_raising(response) ==
    IF response.outcome = "ok" THEN Return(response.doc)
    ELSE IF response.outcome = "http_error" THEN Raise("HTTPError")
    ELSE Return(None)
get_page(response) ==
    IF response.outcome = "ok" THEN Return(response.doc) ELSE Return(None)

-----------------------------------------------------------------------------
(* Assembling a page's content field from the container's elements.  The   *)
(* adapters do it in three ways.                                           *)

extracted(self_base_url, elems) ==
    [i \in 1..Len(elems) |-> extract_text_content(self_base_url, elems[i], TRUE)]

RECURSIVE strs_of(_)
strs_of(vs) == IF vs = <<>> THEN <<>> ELSE <<Head(vs).str>> \o strs_of(Tail(vs))

\* content_elements.append(self.extract_text_content(element)) for every
\* element, then '\n\n'.join(content_elements): str.join raises TypeError
\* on an item that is None
str_join(sep, vs) ==
    IF \E i \in 1..Len(vs) : vs[i] = None
    THEN Raise("TypeError")
    ELSE Return(join(sep, strs_of(vs)))

content_all(self_base_url, elems) ==
    str_join("\n\n", extracted(self_base_url, elems))

\* if text: content_elements.append(text)
content_kept(self_base_url, elems) ==
    Return(join("\n\n", strs_of(SelectSeq(extracted(self_base_url, elems), Truthy))))

\* if text and text not in content_elements: content_elements.append(text)
RECURSIVE unique_strs(_, _)
unique_strs(vs, acc) ==
    IF vs = <<>> THEN acc
    ELSE IF Truthy(Head(vs)) /\ ~\E i \in 1..Len(acc) : acc[i] = Head(vs).str
    THEN unique_strs(Tail(vs), Append(acc, Head(vs).str))
    ELSE unique_strs(Tail(vs), acc)

content_unique(self_base_url, elems) ==
    Return(join("\n\n", unique_strs(extracted(self_base_url, elems), <<>>)))

\* a list without repeats, first occurrences kept (if x not in list: append)
RECURSIVE dedupe(_, _)
dedupe(us, acc) ==
    IF us = <<>> THEN acc
    ELSE IF \E i \in 1..Len(acc) : acc[i] = Head(us) THEN dedupe(Tail(us), acc)
    ELSE dedupe(Tail(us), Append(acc, Head(us)))

RECURSIVE joined(_, _)
joined(base, hrefs) ==
    IF hrefs = <<>> THEN <<>>
    ELSE <<urljoin(base, Head(hrefs))>> \o joined(base, Tail(hrefs))

-----------------------------------------------------------------------------
(* The single-page scrape functions (scrape_home_page, scrape_about_page,  *)
(* _scrape_generic_page, ...), applied to a page get_page returned.        *)

\* a record that leaves the headings out
page_record_bare(url, headings, content) ==
    [url |-> url, timestamp |-> "now", content |-> content]
page_record(url, headings, content) ==
    [url |-> url, timestamp |-> "now", headings |-> headings, content |-> content]

\* which of the three assemblies the function uses
assembly(a, fn) ==
    CASE a \in {"MetrScraper", "AisiScraper"}                      -> "all"
      [] a = "NistAisiScraper" /\ fn = "scrape_consortium_members" -> "all"
      [] a = "LakeraScraper"                                       -> "unique"
      [] OTHER                                                     -> "kept"

content_of(a, fn, elems) ==
    CASE assembly(a, fn) = "all"    -> content_all(base_url(a), elems)
      [] assembly(a, fn) = "unique" -> content_unique(base_url(a), elems)
      [] OTHER                      -> content_kept(base_url(a), elems)

\* the headings are collected from the whole page, not from the container
soup_headings(a, fn) ==
    \/ a \in {"MetrScraper", "AisiScraper", "LakeraScraper", "AnthropicScraper"}
    \/ a = "DeepMindScraper" /\ fn = "scrape_home_page"

\* the fields the function's record has besides url, timestamp, headings
\* and content, with their values for a page that shows none of them
extra_fields(a, fn, soup) ==
    CASE a = "AisiScraper" /\ fn = "scrape_work_page" ->
            [article_links |->
                IF soup.container
                THEN dedupe(joined(base_url(a), soup.links), <<>>) ELSE <<>>]
      [] a = "NistAisiScraper" /\ fn = "scrape_home_page" -> [sections |-> <<>>]
      [] a = "NistAisiScraper" /\ fn = "_scrape_generic_page" -> [links |-> <<>>]
      [] a = "NistAisiScraper" /\ fn = "scrape_consortium_members" ->
            [links |-> <<>>, members |-> <<>>]
      [] a = "CanadianAisiScraper" -> [links |-> <<>>]
      [] a = "ApolloScraper" /\ fn = "scrape_home_page" -> [sections |-> <<>>]
      [] a = "ApolloScraper" /\ fn = "scrape_research_page" ->
            [post_links |->
                IF soup.container
                THEN dedupe(joined(base_url(a),
                        SelectSeq(soup.links,
                            LAMBDA href : contains(href, <<"/", "research", "/">>)
                                          /\ href # <<"/", "research">>)), <<>>)
                ELSE <<>>]
      [] a = "DeepMindScraper" /\ fn = "scrape_about_page" -> [sections |-> <<>>]
      [] a = "CHAIScraper" /\ fn = "scrape_about_page" -> [team |-> <<>>]
      [] a = "CHAIScraper" /\ fn = "scrape_research_page" -> [research_areas |-> <<>>]
      [] a = "CHAIScraper" /\ fn = "scrape_progress_report" -> [highlights |-> <<>>]
      [] OTHER -> [url |-> <<>>]

\* the function's result once the content field is assembled
page_result(a, fn, url, soup, content) ==
    IF content.kind = "raise" THEN content
    ELSE IF a = "NistAisiScraper" /\ fn = "scrape_home_page"
            /\ soup.container /\ ~soup.teaser_h3
    THEN Raise("AttributeError")    \* article.find('h3', ...).find('a')
    ELSE Return(page_record(url,
                    IF soup.container \/ soup_headings(a, fn)
                    THEN soup.headings ELSE <<>>,
                    content.value)
                @@ extra_fields(a, fn, soup))

\* the function's result on the page `soup` fetched from `url`
scrape_page(a, fn, url, soup) ==
    page_result(a, fn, url, soup,
                IF soup.container THEN content_of(a, fn, soup.elems)
                ELSE Return(""))

-----------------------------------------------------------------------------
(* scrape_blog_post (AisiScraper: scrape_article), adapter by adapter *)

\* the adapters whose scrape_blog_post tests is_blog_post_url(url)
checks_url(a) ==
    a \in {"MetrScraper", "LakeraScraper", "NistAisiScraper",
           "CanadianAisiScraper", "ApolloScraper", "DeepMindScraper"}

\* the adapters that return None when the content container is missing
none_without_container(a) == a \in {"MetrScraper", "AisiScraper"}

post_assembly(a) ==
    CASE a \in {"MetrScraper", "AisiScraper"} -> "unique"
      [] a = "NistAisiScraper"                -> "all"
      [] OTHER                                -> "kept"

post_content(a, elems) ==
    CASE post_assembly(a) = "all"    -> content_all(base_url(a), elems)
      [] post_assembly(a) = "unique" -> content_unique(base_url(a), elems)
      [] OTHER                       -> content_kept(base_url(a), elems)

\* a record that does not carry the url of its page
post_record_anonymous(a, url) ==
    [url |-> <<>>, timestamp |-> "now", title |-> "", date |-> None,
     content |-> "", headings |-> <<>>, links |-> <<>>]

\* the record the function starts from, before anything is read off the page
post_record(a, url) ==
    [url |-> url, timestamp |-> "now", title |-> "", date |-> None,
     content |-> "", headings |-> <<>>]
    @@ (CASE a = "AisiScraper" -> [category |-> None]
          [] a = "LakeraScraper" ->
                [author |-> None, category |-> None, reading_time |-> None]
          [] a = "ApolloScraper" ->
                [author |-> None, category |-> None,
                 type |-> IF contains(url, <<"/", "blog", "/">>)
                          THEN "blog" ELSE "research"]
          [] a = "DeepMindScraper" ->
                [authors |-> <<>>, abstract |-> "", links |-> <<>>,
                 research_areas |-> <<>>, citation |-> None, pdf_url |-> None]
          [] a = "CSERScraper" -> [authors |-> <<>>, links |-> <<>>]
          [] OTHER -> [links |-> <<>>])

\* the record once the content field is assembled
post_result(post, soup, content) ==
    IF content.kind = "raise" THEN content
    ELSE Return([post EXCEPT !.title = soup.headings[1],
                             !.headings = soup.headings,
                             !.content = content.value])

\* the extraction on the page `soup` fetched for `url`
extract_post(a, url, soup) ==
    IF a = "AisiScraper" /\ soup.category_row = "empty"
    THEN Raise("IndexError")    \* category_row.find_all('a')[-1]
    ELSE IF ~soup.container
    THEN IF none_without_container(a) THEN Return(None)
         ELSE Return(post_record(a, url))
    ELSE post_result(post_record(a, url), soup, post_content(a, soup.elems))

research_url == urljoin(base_url("CHAIScraper"), <<"/", "research">>)
progress_url == urljoin(base_url("CHAIScraper"), <<"/", "progress-report", "/">>)

\* CHAIScraper.scrape_blog_post hands over to one of its page functions
chai_page(url) ==
    IF contains(url, <<"research">>) THEN "scrape_research_page"
    ELSE IF contains(url, <<"progress-report">>) THEN "scrape_progress_report"
    ELSE "none"

\* the URLs the call asks get_page for
post_requests(a, url) ==
    IF a # "CHAIScraper" THEN <<url>>
    ELSE IF chai_page(url) = "scrape_research_page" THEN <<research_url>>
    ELSE IF chai_page(url) = "scrape_progress_report" THEN <<progress_url>>
    ELSE <<>>

\* a scrape_blog_post that does not look at scraped_urls
already_scraped_never(url, visited) == FALSE
\* if url in self.scraped_urls
already_scraped(url, visited) == url \in visited

\* what the call returns once get_page has answered `soup`
fetched_post(a, url, soup) ==
    IF soup.kind = "raise" THEN soup
    ELSE IF soup.value = None THEN Return(None)
    ELSE IF a = "CHAIScraper"
    THEN scrape_page(a, chai_page(url),
                     IF chai_page(url) = "scrape_research_page"
                     THEN research_url ELSE progress_url, soup.value)
    ELSE extract_post(a, url, soup.value)

\* a scrape_blog_post that adds the url only once the page was fetched
scrape_blog_post_forgetful(a, url, visited, response) ==
    IF url \in visited
    THEN [result |-> Return(None), scraped_urls |-> visited, requests |-> <<>>]
    ELSE IF checks_url(a) /\ ~is_blog_post_url(a, url)
    THEN [result |-> Return(None), scraped_urls |-> visited, requests |-> <<>>]
    ELSE IF a = "CHAIScraper" /\ chai_page(url) = "none"
    THEN [result |-> Return(None), scraped_urls |-> visited, requests |-> <<>>]
    ELSE [result |-> fetched_post(a, url, get_page(response)),
          scraped_urls |-> IF get_page(response) = Return(None)
                           THEN visited ELSE visited \cup {url},
          requests |-> post_requests(a, url)]

\* the call self.scrape_blog_post(url) with self.scraped_urls = visited,
\* where `response` is what session.get answers if the call fetches:
\* what it returns or raises, the scraped_urls it leaves, its requests
scrape_blog_post(a, url, visited, response) ==
    IF already_scraped(url, visited)
    THEN [result |-> Return(None), scraped_urls |-> visited, requests |-> <<>>]
    ELSE IF checks_url(a) /\ ~is_blog_post_url(a, url)
    THEN [result |-> Return(None), scraped_urls |-> visited, requests |-> <<>>]
    ELSE IF a = "CHAIScraper" /\ chai_page(url) = "none"
    THEN [result |-> Return(None), scraped_urls |-> visited \cup {url},
          requests |-> <<>>]
    ELSE [result |-> fetched_post(a, url, get_page(response)),
          scraped_urls |-> visited \cup {url},
          requests |-> post_requests(a, url)]

-----------------------------------------------------------------------------
(* scrape_all, adapter by adapter, as the sequence of its statements:      *)
(*   page   self.data[key] = self.fn()         one request to url          *)
(*   posts  a discovery, then scrape_blog_post on every URL discovered,    *)
(*          the results that are not None appended to self.data[key]       *)
(*   save   self.save_to_json()                                            *)
(* The source of a posts statement is a literal list ("hardcoded"), a      *)
(* field of a page scraped before ("data"), one listing page ("links") or  *)
(* a paginated listing ("pages").                                          *)

page_stmt(key, fn, path) ==
    [op |-> "page", key |-> key, fn |-> fn, url |-> path, source |-> ""]
posts_stmt(key, fn, source, path) ==
    [op |-> "posts", key |-> key, fn |-> fn, url |-> path, source |-> source]
save_stmt ==
    [op |-> "save", key |-> "", fn |-> "save_to_json", url |-> <<>>, source |-> ""]

at(a, path) == urljoin(base_url(a), path)

ISED == <<"https://", "ised-isde.canada.ca", "/", "site", "/">>
NIST_AI == <<"https://", "www.nist.gov", "/", "artificial-intelligence", "/">>
AISIC == "artificial-intelligence-safety-institute-consortium"

scrape_all(a) ==
    CASE a = "MetrScraper" ->
        << page_stmt("home", "scrape_home_page", base_url(a)),
           page_stmt("about", "scrape_about_page", at(a, <<"/", "about">>)),
           posts_stmt("blog_posts", "scrape_blog_posts", "links",
                      at(a, <<"/", "blog">>)),
           save_stmt >>
      [] a = "AisiScraper" ->
        << page_stmt("home", "scrape_home_page", base_url(a)),
           page_stmt("about", "scrape_about_page", at(a, <<"/", "about">>)),
           page_stmt("work", "scrape_work_page", at(a, <<"/", "work">>)),
           page_stmt("academic_engagement", "scrape_academic_engagement_page",
                     at(a, <<"/", "academic-engagement">>)),
           page_stmt("grants", "scrape_grants_page", at(a, <<"/", "grants">>)),
           posts_stmt("articles", "scrape_all", "data", <<>>),
           save_stmt >>
      [] a = "LakeraScraper" ->
        << page_stmt("home", "scrape_home_page", base_url(a)),
           page_stmt("about", "scrape_about_page", at(a, <<"/", "about">>)),
           posts_stmt("blog_posts", "scrape_blog_posts", "pages",
                      at(a, <<"/", "blog">>)),
           save_stmt >>
      [] a = "NistAisiScraper" ->
        << page_stmt("home", "scrape_home_page", base_url(a)),
           page_stmt("strategic_vision", "_scrape_generic_page",
                     at(a, <<"/", "aisi", "/", "strategic-vision">>)),
           page_stmt("guidance", "_scrape_generic_page",
                     at(a, <<"/", "aisi", "/", "guidance">>)),
           page_stmt("consortium", "_scrape_generic_page",
                     at(a, <<"/", "aisi", "/", AISIC \o "-aisic">>)),
           page_stmt("consortium_members", "scrape_consortium_members",
                     at(a, <<"/", "aisi", "/", AISIC, "/", "aisic-members">>)),
           page_stmt("member_perspectives", "_scrape_generic_page",
                     at(a, <<"/", "aisi", "/", "aisic-member-perspectives">>)),
           page_stmt("working_groups", "_scrape_generic_page",
                     at(a, <<"/", "aisi", "/", "aisic-working-groups">>)),
           page_stmt("faqs", "_scrape_generic_page",
                     at(a, <<"/", "aisi", "/", AISIC \o "-faqs">>)),
           page_stmt("ai_engagement", "_scrape_generic_page",
                     NIST_AI \o <<"nist-ai-engagement">>),
           page_stmt("related_links", "_scrape_generic_page",
                     NIST_AI \o <<"related-links">>),
           posts_stmt("news_updates", "scrape_blog_posts", "links", base_url(a)),
           save_stmt >>
      [] a = "CanadianAisiScraper" ->
        << page_stmt("ised_aisi", "scrape_ised_page",
               ISED \o <<"ised", "/", "en", "/",
                         "canadian-artificial-intelligence-safety-institute">>),
           page_stmt("ised_inoai", "scrape_ised_page",
               ISED \o <<"ised", "/", "en", "/",
                  "international-network-ai-safety-institutes-mission-statement">>),
           page_stmt("ised_strategy", "scrape_ised_page",
               ISED \o <<"ai-strategy", "/", "en">>),
           page_stmt("ised_aida", "scrape_ised_page",
               ISED \o <<"innovation-better-canada", "/", "en", "/",
                  "artificial-intelligence-and-data-act-aida-companion-document">>),
           page_stmt("ised_code", "scrape_ised_page",
               ISED \o <<"ised", "/", "en", "/",
                  "voluntary-code-conduct-responsible-development-and-management-advanced-generative-ai-systems">>),
           page_stmt("cifar_ai_safety", "scrape_cifar_page",
               <<"https://", "cifar.ca", "/", "ai", "/", "ai-and-society", "/",
                 "ai-safety-program", "/">>),
           posts_stmt("cifar_news", "scrape_cifar_news", "hardcoded", <<>>),
           page_stmt("cse_guidelines", "scrape_cse_page",
               <<"https://", "www.cyber.gc.ca", "/", "en", "/", "news-events",
                 "/", "guidelines-secure-ai-system-development">>),
           save_stmt >>
      [] a = "ApolloScraper" ->
        << page_stmt("home", "scrape_home_page", base_url(a)),
           page_stmt("research", "scrape_research_page",
                     at(a, <<"/", "research">>)),
           posts_stmt("research_posts", "scrape_all", "data", <<>>),
           posts_stmt("blog_posts", "scrape_blog_posts", "links",
                      at(a, <<"/", "blog">>)),
           save_stmt >>
      [] a = "AnthropicScraper" ->
        << page_stmt("home", "scrape_home_page", base_url(a)),
           posts_stmt("research_posts", "scrape_research_posts", "hardcoded",
                      <<>>),
           posts_stmt("news_posts", "scrape_news_posts", "links",
                      at(a, <<"/", "news">>)),
           save_stmt >>
      [] a = "DeepMindScraper" ->
        << page_stmt("home", "scrape_home_page", base_url(a)),
           page_stmt("about", "scrape_about_page", at(a, <<"/", "about">>)),
           posts_stmt("publications", "scrape_publications", "pages",
                      at(a, <<"/", "research", "/", "publications", "/">>)),
           save_stmt >>
      [] a = "CSERScraper" ->
        << page_stmt("home", "scrape_home_page", base_url(a)),
           page_stmt("about", "scrape_about_page",
                     at(a, <<"/", "about-us", "/">>)),
           posts_stmt("resources", "scrape_blog_posts", "hardcoded", <<>>),
           save_stmt >>
      [] a = "CHAIScraper" ->
        << page_stmt("home", "scrape_home_page", base_url(a)),
           page_stmt("about", "scrape_about_page", at(a, <<"/", "about", "/">>)),
           posts_stmt("blog_posts", "scrape_blog_posts", "hardcoded", <<>>),
           save_stmt >>

\* the keys self.data has after __init__ whose value is a list
list_keys(a) ==
    {"blog_posts"}
    \cup (CASE a = "AisiScraper"         -> {"articles"}
            [] a = "NistAisiScraper"     -> {"news_updates"}
            [] a = "CanadianAisiScraper" -> {"cifar_news"}
            [] a = "ApolloScraper"       -> {"research_posts"}
            [] a = "AnthropicScraper"    -> {"research_posts", "news_posts"}
            [] a = "DeepMindScraper"     -> {"publications", "research_areas"}
            [] a = "CSERScraper"         -> {"resources"}
            [] OTHER                     -> {})

\* the keys whose value is None after __init__
page_keys(a) ==
    {"home", "about"}
    \cup (CASE a = "AisiScraper" -> {"work", "academic_engagement", "grants"}
            [] a = "NistAisiScraper" ->
                {"strategic_vision", "guidance", "consortium",
                 "consortium_members", "member_perspectives", "working_groups",
                 "faqs", "ai_engagement", "related_links"}
            [] a = "CanadianAisiScraper" ->
                {"ised_aisi", "cifar_ai_safety", "ised_inoai", "ised_strategy",
                 "ised_aida", "ised_code", "cse_guidelines"}
            [] a = "ApolloScraper" -> {"research"}
            [] OTHER -> {})

\* self.data after __init__
initial_data(a) ==
    [k \in {"metadata"} \cup page_keys(a) \cup list_keys(a) |->
        IF k = "metadata"
        THEN [timestamp |-> "now", base_url |-> base_url(a)]
        ELSE IF k \in list_keys(a) THEN <<>> ELSE None]

-----------------------------------------------------------------------------
(* The literal URL lists (the head of each; MaxHardcoded entries are used) *)

CIFAR_NEWS == <<"https://", "cifar.ca", "/", "cifarnews", "/", "2024", "/">>

hardcoded(a) ==
    CASE a = "CanadianAisiScraper" ->
        << CIFAR_NEWS \o <<"11", "/", "12", "/",
              "government-of-canada-announces-canadian-ai-safety-institute", "/">>,
           CIFAR_NEWS \o <<"12", "/", "12", "/",
              "nicolas-papernot-and-catherine-regis-appointed-co-directors-of-the-caisi-research-program-at-cifar",
              "/">> >>
      [] a = "AnthropicScraper" ->
        << base_url(a) \o <<"/", "research", "/", "building-effective-agents">>,
           base_url(a) \o <<"/", "research", "/", "alignment-faking">>,
           base_url(a) \o <<"/", "research", "/", "clio">>,
           base_url(a) \o <<"/", "research", "/",
                            "statistical-approach-to-model-evals">> >>
      [] a = "CSERScraper" ->
        << at(a, <<"/", "research", "/", "risks-from-artificial-intelligence", "/">>),
           at(a, <<"/", "resources", "/",
                   "ai-governance-displacement-and-defragmentation-international-law",
                   "/">>),
           at(a, <<"/", "resources", "/",
                   "aligning-ai-regulation-sociotechnical-change", "/">>),
           at(a, <<"/", "resources", "/",
                   "why-and-how-governments-should-monitor-ai-development", "/">>) >>
      [] a = "CHAIScraper" -> <<research_url, progress_url>>
      [] OTHER -> <<>>

take(us, n) == SubSeq(us, 1, IF n < Len(us) THEN n ELSE Len(us))

-----------------------------------------------------------------------------
(* The listing documents the web serves: three hrefs per listing, two that *)
(* lead to content pages and one that leads elsewhere on the site.         *)

hrefs(a, key) ==
    CASE a = "AisiScraper" ->
            << <<"/", "work", "/", "report-a">>, <<"/", "work", "/", "report-b">>,
               <<"/", "grants">> >>
      [] a = "NistAisiScraper" ->
            << <<"/", "news-events", "/", "news", "/", "item-a">>,
               <<"/", "news-events", "/", "news", "/", "item-b">>,
               <<"/", "aisi", "/", "guidance">> >>
      [] a = "ApolloScraper" /\ key = "research" ->
            << <<"/", "research", "/", "paper-a">>,
               <<"/", "research", "/", "paper-b">>, <<"/", "research", "/">> >>
      [] a = "AnthropicScraper" ->
            << <<"/", "news", "/", "item-a">>, <<"/", "news", "/", "item-b">>,
               <<"/", "news", "/">> >>
      [] a = "DeepMindScraper" ->
            << <<"/", "research", "/", "publications", "/", "paper-a", "/">>,
               <<"/", "research", "/", "publications", "/", "?", "page=2">>,
               <<"/", "research", "/", "publications", "/">> >>
      [] OTHER ->
            << <<"/", "blog", "/", "post-a">>, <<"/", "blog", "/", "post-b">>,
               <<"/", "blog", "/">> >>

\* the anchors of one listing page, in document order
LinkChoices(a, key) ==
    LET h == hrefs(a, key)
    IN  {<<>>, <<h[1]>>, <<h[1], h[1]>>, <<h[1], h[2]>>, <<h[1], h[3]>>}

\* the anchors of one page of a paginated listing
PageLinkChoices(a, key) ==
    LET h == hrefs(a, key) IN {<<>>, <<h[1]>>, <<h[2]>>}

ContentDocs == {RegularDoc, RepeatDoc}

ListingDocs(a, key) ==
    {Doc(TRUE, <<P_Alpha, P_Beta>>, ls, ls # <<>>, 0) : ls \in LinkChoices(a, key)}

\* page p of an honest paginated listing: its next-page control, when it
\* has one, leads to page p + 1
ListingPageDocs(a, key, p) ==
    {Doc(TRUE, <<>>, ls, ls # <<>>, n) :
        ls \in PageLinkChoices(a, key), n \in {0, p + 1}}

\* a page whose next-page control leads to a page other than p + 1
StrayPageDocs(a, key, p) ==
    IF a = "DeepMindScraper"
    THEN {Doc(TRUE, <<>>, ls, ls # <<>>, n) :
            ls \in {<<>>, <<hrefs(a, key)[1]>>},
            n \in (1..MaxListingPages) \ {p + 1}}
    ELSE {}

\* the documents a page statement may be served
PageDocs(a, stmt) ==
    IF stmt.fn \in {"scrape_work_page", "scrape_research_page"}
       /\ a \in {"AisiScraper", "ApolloScraper"}
    THEN ListingDocs(a, stmt.key)
    ELSE {RegularDoc}

\* the responses session.get may give: the regular documents, and while the
\* budget of faults lasts a failure or an irregular document
Responses(regular, irregular, budget) ==
    {Page(d) : d \in regular}
    \cup (IF budget < MaxFaults
          THEN {TransportError, HttpError} \cup {Page(d) : d \in irregular}
          ELSE {})

is_fault(response, regular) ==
    response.outcome # "ok" \/ response.doc \notin regular

Perms(S) ==
    {f \in [1..Cardinality(S) -> S] :
        \A i, j \in 1..Cardinality(S) : i # j => f[i] # f[j]}

RECURSIVE range(_)
range(us) == IF us = <<>> THEN {} ELSE {Head(us)} \cup range(Tail(us))

-----------------------------------------------------------------------------
(* Discovery: which anchors of a listing page become URLs to scrape *)

\* the test a listing function applies to urljoin(self.base_url, href)
listed(a, full_url, listing_url) ==
    CASE a = "ApolloScraper" ->
            contains(full_url, <<"/", "blog", "/">>) /\ full_url # listing_url
      [] a = "AnthropicScraper" ->
            startswith(full_url, base_url(a) \o <<"/", "news", "/">>)
            /\ full_url # listing_url
      [] OTHER -> is_blog_post_url(a, full_url)

\* the listing functions that look for the links inside a container
needs_container(a) ==
    a \in {"NistAisiScraper", "ApolloScraper", "AnthropicScraper",
           "DeepMindScraper"}

\* the URLs one listing page contributes, in document order
found_links(a, soup, listing_url) ==
    IF needs_container(a) /\ ~soup.container THEN <<>>
    ELSE SelectSeq(joined(base_url(a), soup.links),
                   LAMBDA u : listed(a, u, listing_url))

Digits == <<"1", "2", "3", "4", "5", "6", "7", "8", "9">>

\* the URL of page p of a paginated listing
page_url(a, listing_url, p) ==
    IF p = 1 THEN listing_url
    ELSE IF a = "LakeraScraper"
    THEN listing_url \o <<"?", "665a46a9_page=" \o Digits[p]>>
    ELSE listing_url \o <<"?", "page=" \o Digits[p]>>

\* why the while loop of a paginated discovery is left after this page,
\* "" when it goes on
loop_break(a, soup) ==
    IF soup = None THEN "not soup"
    ELSE IF a = "LakeraScraper"
    THEN IF ~soup.has_items THEN "not found_posts"
         ELSE IF soup.next_page = 0 THEN "not next_button"
         ELSE ""
    ELSE IF ~soup.container THEN "not main_content"
         ELSE IF soup.next_page = 0 THEN "not next_page_exists"
         ELSE ""

\* a loop that asks for the same page again
next_page_stuck(a, soup, p) == p
\* the page counter for the next round
next_page(a, soup, p) == IF a = "LakeraScraper" THEN p + 1 ELSE soup.next_page

\* the list a posts statement iterates when its source is a field of a
\* page scraped before
links_in_data(a, d) ==
    IF a = "AisiScraper"
    THEN IF d["work"] # None THEN d["work"].article_links ELSE <<>>
    ELSE IF d["research"] # None THEN d["research"].post_links ELSE <<>>

-----------------------------------------------------------------------------
(* The state machine *)

NoCall ==
    [url |-> <<>>, seen |-> FALSE, accepted |-> FALSE, soup |-> Return(None),
     result |-> Return(None), requests |-> <<>>, made |-> FALSE]

NoFetch == [url |-> <<>>, response |-> "none", result |-> Return(None)]

\* no function is being applied on its own
NoApply ==
    [fn |-> "none", self |-> "none", base_url |-> <<>>, url |-> <<>>,
     element |-> Text(""), with_links |-> FALSE, done |-> FALSE,
     result |-> Return(None)]

\* no script is running
NoProcess ==
    /\ program = "none"
    /\ argv = <<>>
    /\ pc = "exit"
    /\ websites = <<>>
    /\ scrapers = <<>>
    /\ printed = <<>>
    /\ exit_status = -1
    /\ fs = <<>>

Init ==
    /\ applied = NoApply
    /\ NoProcess
    /\ scraper \in Adapters
    /\ step = 1
    /\ phase = "start"
    /\ scraped_urls = {}
    /\ data = initial_data(scraper)
    /\ requests = <<>>
    /\ listing = <<>>
    /\ page = 1
    /\ blog_links = <<>>
    /\ discovered = {}
    /\ last_call = NoCall
    /\ last_fetch = NoFetch
    /\ written = <<>>
    /\ raised = "none"
    /\ faults = 0

running == raised = "none" /\ step <= Len(scrape_all(scraper))
stmt == scrape_all(scraper)[step]

fetch(url, response) ==
    [url |-> url, response |-> response.outcome, result |-> get_page(response)]

\* what a page function returns once get_page has answered `soup`
page_call(a, st, soup) ==
    IF soup.kind = "raise" THEN soup
    ELSE IF soup.value = None THEN Return(None)
    ELSE scrape_page(a, st.fn, st.url, soup.value)

request(url, item, response) ==
    [url |-> url, item |-> item, ok |-> response.outcome = "ok"]

\* get_page(url) is called and session.get answers `response`
Fetch(url, response, regular) ==
    /\ requests' = Append(requests, request(url, FALSE, response))
    /\ last_fetch' = fetch(url, response)
    /\ faults' = IF is_fault(response, regular) THEN faults + 1 ELSE faults

\* self.data[key] = <result>, unless the call raised
Assign(key, result) ==
    IF result.kind = "raise"
    THEN /\ raised' = result.exc
         /\ UNCHANGED <<data, step>>
    ELSE /\ data' = [data EXCEPT ![key] = result.value]
         /\ step' = step + 1
         /\ UNCHANGED raised

\* self.data[key] = self.scrape_..._page()
ScrapePage ==
    /\ running
    /\ stmt.op = "page"
    /\ \E response \in Responses(PageDocs(scraper, stmt),
                                 IrregularDocs(scraper, stmt.fn), faults) :
        /\ Fetch(stmt.url, response, PageDocs(scraper, stmt))
        /\ Assign(stmt.key, page_call(scraper, stmt, get_page(response)))
    /\ UNCHANGED <<scraper, phase, scraped_urls, listing, page, blog_links,
                   discovered, last_call, written>>
    /\ UNCHANGED <<applied, process_vars>>

\* for url in <a literal list or a list held in self.data>: the list is taken
IterateList ==
    /\ running
    /\ stmt.op = "posts" /\ phase = "start"
    /\ stmt.source \in {"hardcoded", "data"}
    /\ blog_links' = IF stmt.source = "hardcoded"
                     THEN take(hardcoded(scraper), MaxHardcoded)
                     ELSE links_in_data(scraper, data)
    /\ discovered' = range(blog_links')
    /\ phase' = "items"
    /\ UNCHANGED <<scraper, step, scraped_urls, data, requests, listing, page,
                   last_call, last_fetch, written, raised, faults>>
    /\ UNCHANGED <<applied, process_vars>>

\* the links of the listing page are collected (in a set; NistAisiScraper
\* meets them in document order), unless get_page raised
Collect(soup, found, url) ==
    IF soup.kind = "raise"
    THEN /\ raised' = soup.exc
         /\ UNCHANGED <<blog_links, discovered, phase, listing>>
    ELSE /\ discovered' = range(found)
         /\ IF scraper = "NistAisiScraper"
            THEN blog_links' = found
            ELSE blog_links' \in Perms(range(found))
         /\ listing' = <<[page |-> 1, url |-> url, links |-> range(found),
                          has_items |-> found # <<>>, next_page |-> 0,
                          stop |-> "single page"]>>
         /\ phase' = "items"
         /\ UNCHANGED raised

listing_call(a, soup, url) ==
    IF soup.kind = "raise" \/ soup.value = None THEN <<>>
    ELSE found_links(a, soup.value, url)

\* a listing function up to its loop over the links: one request
ScrapeListing ==
    /\ running
    /\ stmt.op = "posts" /\ phase = "start"
    /\ stmt.source = "links"
    /\ \E response \in Responses(ListingDocs(scraper, stmt.key),
                                 {NoContainerDoc}, faults) :
        /\ Fetch(stmt.url, response, ListingDocs(scraper, stmt.key))
        /\ Collect(get_page(response),
                   listing_call(scraper, get_page(response), stmt.url),
                   stmt.url)
    /\ UNCHANGED <<scraper, step, scraped_urls, data, page, last_call, written>>
    /\ UNCHANGED <<applied, process_vars>>

\* the end of one round of the while loop: break, or the next page
Round(soup, found, url, stop) ==
    IF soup.kind = "raise"
    THEN /\ raised' = soup.exc
         /\ UNCHANGED <<blog_links, discovered, phase, listing, page>>
    ELSE /\ discovered' = discovered \cup found
         /\ listing' = Append(listing,
                [page |-> page, url |-> url, links |-> found,
                 has_items |-> soup.value # None /\ soup.value.has_items,
                 next_page |-> IF soup.value = None THEN 0
                               ELSE soup.value.next_page,
                 stop |-> stop])
         /\ IF stop = ""
            THEN /\ page' = next_page(scraper, soup.value, page)
                 /\ UNCHANGED <<blog_links, phase>>
            ELSE /\ blog_links' \in Perms(discovered')
                 /\ phase' = "items"
                 /\ UNCHANGED page
         /\ UNCHANGED raised

\* one round of the while loop of a paginated discovery (LakeraScraper
\* scrape_blog_posts, DeepMindScraper scrape_publications); the documents
\* show no filter section, so research_areas stays as it is
ScanListingPage ==
    /\ running
    /\ stmt.op = "posts" /\ phase = "start"
    /\ stmt.source = "pages"
    /\ Len(listing) < MaxListingPages
    /\ \E response \in Responses(ListingPageDocs(scraper, stmt.key, page),
                                 {NoContainerDoc}
                                 \cup StrayPageDocs(scraper, stmt.key, page),
                                 faults) :
        /\ Fetch(page_url(scraper, stmt.url, page), response,
                 ListingPageDocs(scraper, stmt.key, page))
        /\ Round(get_page(response),
                 range(listing_call(scraper, get_page(response), stmt.url)),
                 page_url(scraper, stmt.url, page),
                 IF get_page(response).kind = "raise" THEN "raise"
                 ELSE loop_break(scraper, get_page(response).value))
    /\ UNCHANGED <<scraper, step, scraped_urls, data, last_call, written>>
    /\ UNCHANGED <<applied, process_vars>>

\* the function scrape_blog_post hands the page to
item_fn(a, url) ==
    IF a = "AisiScraper" THEN "scrape_article"
    ELSE IF a = "CHAIScraper" THEN chai_page(url)
    ELSE "scrape_blog_post"

\* post = self.scrape_blog_post(url); if post: self.data[key].append(post)
\* A call that asks for no page meets no response: one stands for all.
Call(key, url, response, call) ==
    /\ call.requests = <<>> => response = Page(RegularDoc)
    /\ scraped_urls' = call.scraped_urls
    /\ requests' = requests \o [i \in 1..Len(call.requests) |->
                                    request(call.requests[i], TRUE, response)]
    /\ last_call' = [url |-> url, seen |-> url \in scraped_urls,
                     accepted |-> is_blog_post_url(scraper, url),
                     soup |-> IF call.requests # <<>> THEN get_page(response)
                              ELSE Return(None),
                     result |-> call.result, requests |-> call.requests,
                     made |-> TRUE]
    /\ last_fetch' = IF call.requests # <<>>
                     THEN fetch(call.requests[1], response) ELSE last_fetch
    /\ faults' = IF call.requests # <<>> /\ is_fault(response, ContentDocs)
                 THEN faults + 1 ELSE faults
    /\ IF call.result.kind = "raise"
       THEN /\ raised' = call.result.exc
            /\ UNCHANGED <<data, blog_links>>
       ELSE /\ data' = IF call.result.value # None
                       THEN [data EXCEPT ![key] = Append(@, call.result.value)]
                       ELSE data
            /\ blog_links' = Tail(blog_links)
            /\ UNCHANGED raised

\* one round of a loop over the discovered URLs
ScrapeItem ==
    /\ running
    /\ stmt.op = "posts" /\ phase = "items"
    /\ blog_links # <<>>
    /\ \E response \in
            Responses(ContentDocs,
                      IrregularDocs(scraper, item_fn(scraper, Head(blog_links))),
                      faults) :
        Call(stmt.key, Head(blog_links), response,
             scrape_blog_post(scraper, Head(blog_links), scraped_urls, response))
    /\ UNCHANGED <<scraper, step, phase, listing, page, discovered, written>>
    /\ UNCHANGED <<applied, process_vars>>

\* the loop over the discovered URLs is over: the statement is done
EndPosts ==
    /\ running
    /\ stmt.op = "posts" /\ phase = "items"
    /\ blog_links = <<>>
    /\ step' = step + 1
    /\ phase' = "start"
    /\ listing' = <<>>
    /\ page' = 1
    /\ discovered' = {}
    /\ UNCHANGED <<scraper, scraped_urls, data, requests, blog_links, last_call,
                   last_fetch, written, raised, faults>>
    /\ UNCHANGED <<applied, process_vars>>

\* a save_to_json after which scrape_all scrapes the home page again
save_to_json_early ==
    /\ running
    /\ stmt.op = "save"
    /\ written' = Append(written, data)
    /\ step' = 1
    /\ UNCHANGED <<scraper, phase, scraped_urls, data, requests, listing, page,
                   blog_links, discovered, last_call, last_fetch, raised, faults>>
    /\ UNCHANGED <<applied, process_vars>>
\* self.save_to_json(): json.dump(self.data, f)
save_to_json ==
    /\ running
    /\ stmt.op = "save"
    /\ written' = Append(written, data)
    /\ step' = step + 1
    /\ UNCHANGED <<scraper, phase, scraped_urls, data, requests, listing, page,
                   blog_links, discovered, last_call, last_fetch, raised, faults>>
    /\ UNCHANGED <<applied, process_vars>>

Next ==
    \/ ScrapePage
    \/ IterateList
    \/ ScrapeListing
    \/ ScanListingPage
    \/ ScrapeItem
    \/ EndPosts
    \/ save_to_json

Spec == Init /\ [][Next]_vars

\* scrape_all returned
done == raised = "none" /\ step > Len(scrape_all(scraper))

-----------------------------------------------------------------------------
(* Publisher identifiers.  create_scraper and the argument dispatch of     *)
(* __main__ look for literal fragments in a website string; the string is  *)
(* a sequence of tokens cut so that every literal searched for             *)
(* ('metr.org', 'nist.gov/aisi', "metr", "aisi", ...) is a token sequence. *)

\* the default list of __main__
default_websites ==
    << <<"https://", "metr", ".org">>,
       <<"https://", "www.", "aisi", ".gov.uk">>,
       <<"https://", "www.", "lakera", ".ai">>,
       <<"https://", "www.", "nist", ".gov/", "aisi">>,
       <<"https://", "ised", "-isde.", "canada", ".ca", "/site/", "ised",
         "/en/canadian-artificial-intelligence-safety-institute">>,
       <<"https://", "www.", "apollo", "research.ai">>,
       <<"https://", "www.", "anthropic", ".com">>,
       <<"https://", "deepmind", ".google">>,
       <<"https://", "www.", "cser", ".ac.uk">>,
       <<"https://", "humancompatible.ai">> >>

\* the if/elif chain of create_scraper, top to bottom
create_scraper_table ==
    << [fragment |-> <<"metr", ".org">>,          scraper |-> "MetrScraper"],
       [fragment |-> <<"aisi", ".gov.uk">>,       scraper |-> "AisiScraper"],
       [fragment |-> <<"lakera", ".ai">>,         scraper |-> "LakeraScraper"],
       [fragment |-> <<"nist", ".gov/", "aisi">>, scraper |-> "NistAisiScraper"],
       [fragment |-> <<"ised", "-isde.", "canada", ".ca">>,
                                                  scraper |-> "CanadianAisiScraper"],
       [fragment |-> <<"apollo", "research.ai">>, scraper |-> "ApolloScraper"],
       [fragment |-> <<"anthropic", ".com">>,     scraper |-> "AnthropicScraper"],
       [fragment |-> <<"deepmind", ".google">>,   scraper |-> "DeepMindScraper"],
       [fragment |-> <<"cser", ".ac.uk">>,        scraper |-> "CSERScraper"],
       [fragment |-> <<"humancompatible.ai">>,    scraper |-> "CHAIScraper"] >>

\* the first branch whose fragment is in website_url; the else branch raises
RECURSIVE first_match(_, _)
first_match(website_url, table) ==
    IF table = <<>> THEN Raise("ValueError")
    ELSE IF contains(website_url, Head(table).fragment)
    THEN Return(Head(table).scraper)
    ELSE first_match(website_url, Tail(table))

\* a create_scraper whose else branch falls back on the first adapter
create_scraper_lenient(website_url) ==
    IF first_match(website_url, create_scraper_table).kind = "raise"
    THEN Return("MetrScraper")
    ELSE first_match(website_url, create_scraper_table)
create_scraper(website_url) == first_match(website_url, create_scraper_table)

\* website strings other than the default ones: two fragments at once, no
\* fragment, upper case, the short names the argument dispatch knows
other_websites ==
    { <<"https://", "www.", "nist", ".gov/", "aisi", "?ref=", "metr", ".org">>,
      <<"https://", "www.", "nist", ".gov/", "aisi", ".gov.uk">>,
      <<"https://", "www.", "cser", ".ac.uk", "/", "deepmind", ".google">>,
      <<"https://", "openai", ".com">>,
      <<>>,
      <<"HTTPS://", "WWW.", "NIST", ".GOV/", "AISI">>,
      <<"metr">>, <<"aisi">>, <<"lakera">>, <<"nist">>, <<"canada">>,
      <<"ised">>, <<"apollo">>, <<"anthropic">>, <<"deepmind">>, <<"cser">>,
      <<"chai">>, <<"nist", "-", "aisi">>, <<"canada", "-", "aisi">>,
      <<"unknown">> }

-----------------------------------------------------------------------------
(* Functions applied on their own: the arguments are drawn at the start,   *)
(* one step applies the function and keeps its result.                     *)

NoSession ==
    /\ scraper = "none"
    /\ step = 1
    /\ phase = "start"
    /\ scraped_urls = {}
    /\ data = <<>>
    /\ requests = <<>>
    /\ listing = <<>>
    /\ page = 1
    /\ blog_links = <<>>
    /\ discovered = {}
    /\ last_call = NoCall
    /\ last_fetch = NoFetch
    /\ written = <<>>
    /\ raised = "none"
    /\ faults = 0

create_scraper_calls ==
    {[NoApply EXCEPT !.fn = "create_scraper", !.url = w] :
        w \in range(default_websites) \cup other_websites}

\* the listing pages the discovery of an adapter fetches: the URL of a
\* listing function, the page whose links scrape_all iterates over
listing_urls(a) ==
    {scrape_all(a)[i].url :
        i \in {j \in 1..Len(scrape_all(a)) :
                /\ scrape_all(a)[j].op = "posts"
                /\ scrape_all(a)[j].source \in {"links", "pages"}}}
    \cup (IF a = "AisiScraper" THEN {at(a, <<"/", "work">>)} ELSE {})
    \cup (IF a = "ApolloScraper" THEN {at(a, <<"/", "research">>)} ELSE {})

\* a listing URL with and without its final slash, with a query string and
\* with a fragment
variants(listing_url) ==
    {rstrip(listing_url, "/") \o tail :
        tail \in {<<>>, <<"/">>, <<"/", "?", "page=2">>, <<"/", "#", "x">>,
                  <<"?", "page=2">>, <<"#", "x">>}}

\* URLs of single articles: the ones the listing documents link to and the
\* ones of the adapter's literal list
article_urls(a) ==
    range(hardcoded(a))
    \cup UNION {range(joined(base_url(a), SubSeq(hrefs(a, k), 1, 2))) :
                    k \in list_keys(a) \cup {"research"}}

is_blog_post_url_calls ==
    UNION {{[NoApply EXCEPT !.fn = "is_blog_post_url", !.self = a,
                            !.base_url = base_url(a), !.url = u] :
                u \in article_urls(a)
                      \cup UNION {variants(l) : l \in listing_urls(a)}} :
            a \in Adapters}

\* the nodes extract_text_content is applied to: every kind of node, with
\* text and without
LI(s) == Elem("li", <<Text(s)>>)
A_About == Anchor(<<"..", "/", "about">>, <<Text("About")>>)

elements ==
    { Elem("table", <<Elem("tr", <<Elem("th", <<Text("Alpha")>>),
                                   Elem("td", <<Text("Beta")>>)>>)>>),
      Elem("table", <<>>),
      Elem("ul", <<LI("A"), LI(" "), LI("B")>>),
      Elem("ol", <<LI(" Alpha "), LI("Beta")>>),
      Elem("ul", <<LI(" ")>>),
      Elem("ul", <<Elem("li", <<Text("A"), Elem("ul", <<LI("B")>>)>>)>>),
      Elem("blockquote", <<Text("Alpha\nBeta")>>),
      Q_Empty,
      Elem("pre", <<Text("Alpha")>>),
      Elem("pre", <<>>),
      Elem("code", <<Text(" ")>>),
      A_About,
      Anchor(<<>>, <<Text("About")>>),
      Anchor(<<"/", "about">>, <<Text(" ")>>),
      Anchor(<<>>, <<>>),
      Anchor(<<"https://", "other.org", "/", "x">>, <<Text(" About")>>),
      Anchor(<<"#", "top">>, <<Text("About")>>),
      P_Alpha,
      Elem("p", <<Text(" ")>>),
      Elem("p", <<Text(" Alpha "), A_About, Text("Beta")>>),
      Elem("div", <<Elem("span", <<Text("Alpha")>>), A_About>>),
      Elem("p", <<Text("Beta"), Elem("em", <<A_About>>)>>) }

\* self.base_url of the scraper the function is called on
base_urls ==
    { <<"https://", "x.org", "/", "blog", "/">>,
      base_url("MetrScraper"), base_url("NistAisiScraper") }

extract_text_content_calls ==
    {[NoApply EXCEPT !.fn = "extract_text_content", !.self = "BaseScraper",
                     !.base_url = b, !.element = e, !.with_links = w] :
        b \in base_urls, e \in elements, w \in BOOLEAN}

UnitInit ==
    /\ applied \in create_scraper_calls \cup is_blog_post_url_calls
                    \cup extract_text_content_calls
    /\ NoSession
    /\ NoProcess

\* the result of the call is kept
Applied(result) == applied' = [applied EXCEPT !.done = TRUE, !.result = result]

\* BaseScraper.__init__ and the adapter's __init__: the object's fields
Construct(a) ==
    /\ scraper' = a
    /\ scraped_urls' = {}
    /\ data' = initial_data(a)

\* scraper = create_scraper(website_url)
ApplyCreateScraper ==
    /\ applied.fn = "create_scraper" /\ ~applied.done
    /\ Applied(create_scraper(applied.url))
    /\ IF create_scraper(applied.url).kind = "return"
       THEN Construct(create_scraper(applied.url).value)
       ELSE UNCHANGED <<scraper, scraped_urls, data>>
    /\ UNCHANGED <<step, phase, requests, listing, page, blog_links, discovered,
                   last_call, last_fetch, written, raised, faults>>
    /\ UNCHANGED process_vars

\* self.is_blog_post_url(url)
ApplyIsBlogPostUrl ==
    /\ applied.fn = "is_blog_post_url" /\ ~applied.done
    /\ Applied(Return(is_blog_post_url(applied.self, applied.url)))
    /\ UNCHANGED <<session_vars, process_vars>>

\* self.extract_text_content(element, with_links)
ApplyExtractTextContent ==
    /\ applied.fn = "extract_text_content" /\ ~applied.done
    /\ Applied(Return(extract_text_content(applied.base_url, applied.element,
                                            applied.with_links)))
    /\ UNCHANGED <<session_vars, process_vars>>

UnitNext ==
    \/ ApplyCreateScraper
    \/ ApplyIsBlogPostUrl
    \/ ApplyExtractTextContent

UnitSpec == UnitInit /\ [][UnitNext]_vars

-----------------------------------------------------------------------------
(* scraper.py run as a script: the argument dispatch, then the loop over   *)
(* the websites with its try/except around create_scraper and scrape_all.  *)

\* str.lower() on the tokens the arguments of this model use
lower_token(t) ==
    CASE t = "HTTPS://" -> "https://"
      [] t = "WWW."     -> "www."
      [] t = "NIST"     -> "nist"
      [] t = ".GOV/"    -> ".gov/"
      [] t = "AISI"     -> "aisi"
      [] OTHER          -> t

lower(website) == [i \in 1..Len(website) |-> lower_token(website[i])]

\* "name" in website
has(website, name) == contains(website, <<name>>)

\* a dispatch whose else branch falls back on the first website
dispatch_lenient(website) == 1
\* the if/elif chain on sys.argv[1].lower(): the index in the default list
\* of the website chosen, 0 for the else branch
dispatch(website) ==
    IF has(website, "metr") THEN 1
    ELSE IF has(website, "aisi") /\ ~has(website, "nist")
            /\ ~has(website, "canada") THEN 2
    ELSE IF has(website, "lakera") THEN 3
    ELSE IF has(website, "nist") THEN 4
    ELSE IF has(website, "canada") \/ has(website, "ised") THEN 5
    ELSE IF has(website, "apollo") THEN 6
    ELSE IF has(website, "anthropic") THEN 7
    ELSE IF has(website, "deepmind") THEN 8
    ELSE IF has(website, "cser") THEN 9
    ELSE IF has(website, "chai") THEN 10
    ELSE 0

\* the exceptions the extraction code of an adapter lets out of scrape_all
scrape_all_raises(a) ==
    CASE a = "MetrScraper"     -> {"TypeError"}
      [] a = "AisiScraper"     -> {"TypeError", "IndexError"}
      [] a = "NistAisiScraper" -> {"TypeError", "AttributeError"}
      [] OTHER                 -> {}

\* an except clause that catches nothing
caught_never(exc) == FALSE
\* except Exception as e
caught(exc) == exc \in {"ValueError", "TypeError", "IndexError", "AttributeError"}

print(msg, website, exc) == [msg |-> msg, website |-> website, exc |-> exc]

MainInit ==
    /\ program = "scraper.py"
    /\ argv \in {<<>>} \cup {<<w>> : w \in range(default_websites) \cup other_websites}
    /\ pc = "start"
    /\ websites = default_websites
    /\ scrapers = <<>>
    /\ printed = <<>>
    /\ exit_status = -1
    /\ fs = <<>>
    /\ applied = NoApply
    /\ NoSession

\* if len(sys.argv) > 1: ... sys.exit(1) in the else branch
Dispatch ==
    /\ program = "scraper.py" /\ pc = "start"
    /\ IF argv = <<>>
       THEN /\ pc' = "loop"
            /\ UNCHANGED <<websites, printed, exit_status>>
       ELSE IF dispatch(lower(argv[1])) = 0
       THEN /\ printed' = printed \o
                    <<print("Unsupported website", lower(argv[1]), "none"),
                      print("Supported websites", <<>>, "none")>>
            /\ exit_status' = 1
            /\ pc' = "exit"
            /\ UNCHANGED websites
       ELSE /\ websites' = <<default_websites[dispatch(lower(argv[1]))]>>
            /\ pc' = "loop"
            /\ UNCHANGED <<printed, exit_status>>
    /\ UNCHANGED <<program, argv, scrapers, fs, applied, session_vars>>

\* the end of the try statement for `website`: `exc` left create_scraper
\* or scrape_all ("none": neither raised)
Handled(website, a, exc) ==
    /\ scrapers' = Append(scrapers,
                          [website |-> website, scraper |-> a, raised |-> exc])
    /\ IF exc = "none"
       THEN /\ printed' = printed \o <<print("Scraping", website, "none"),
                                       print("Finished scraping", website, "none")>>
            /\ UNCHANGED <<pc, exit_status>>
       ELSE IF caught(exc)
       THEN /\ printed' = printed \o <<print("Scraping", website, "none"),
                                       print("Error scraping", website, exc)>>
            /\ UNCHANGED <<pc, exit_status>>
       ELSE /\ printed' = Append(printed, print("Scraping", website, "none"))
            /\ pc' = "exit"
            /\ exit_status' = 1

\* one round of `for website in websites`
ScrapeWebsite ==
    /\ program = "scraper.py" /\ pc = "loop"
    /\ Len(scrapers) < Len(websites)
    /\ IF create_scraper(websites[Len(scrapers) + 1]).kind = "raise"
       THEN Handled(websites[Len(scrapers) + 1], "none",
                    create_scraper(websites[Len(scrapers) + 1]).exc)
       ELSE \E exc \in {"none"} \cup
                scrape_all_raises(create_scraper(websites[Len(scrapers) + 1]).value) :
                Handled(websites[Len(scrapers) + 1],
                        create_scraper(websites[Len(scrapers) + 1]).value, exc)
    /\ UNCHANGED <<program, argv, websites, fs, applied, session_vars>>

\* the loop is over and the script ends
EndOfScript ==
    /\ program = "scraper.py" /\ pc = "loop"
    /\ Len(scrapers) = Len(websites)
    /\ pc' = "exit"
    /\ exit_status' = 0
    /\ UNCHANGED <<program, argv, websites, scrapers, printed, fs, applied,
                   session_vars>>

MainNext ==
    \/ Dispatch
    \/ ScrapeWebsite
    \/ EndOfScript

MainSpec == MainInit /\ [][MainNext]_vars

-----------------------------------------------------------------------------
(* JSON documents, as json.load builds them and json.dump writes them: a   *)
(* dict keeps its keys in the order of the file, a string is a sequence of *)
(* tokens (a date is one token).                                           *)

JNull == [t |-> "null"]
JStr(s) == [t |-> "str", s |-> s]
JNum(n) == [t |-> "num", n |-> n]
JList(items) == [t |-> "list", items |-> items]
JDict(pairs) == [t |-> "dict", pairs |-> pairs]
KV(k, v) == [k |-> k, v |-> v]

\* bool(v)
truthy(v) ==
    CASE v.t = "null" -> FALSE
      [] v.t = "str"  -> v.s # <<>>
      [] v.t = "num"  -> v.n # 0
      [] v.t = "list" -> v.items # <<>>
      [] v.t = "dict" -> v.pairs # <<>>

\* k in d
has_key(d, k) == \E i \in 1..Len(d.pairs) : d.pairs[i].k = k

\* d.get(k); d[k] where the key is there
get(d, k) ==
    IF has_key(d, k)
    THEN d.pairs[CHOOSE i \in 1..Len(d.pairs) : d.pairs[i].k = k].v
    ELSE JNull

\* d.pop(k, None), d[k] = v on a key that is there: the dict afterwards
pop(d, k) == JDict(SelectSeq(d.pairs, LAMBDA p : p.k # k))
put(d, k, v) ==
    JDict([i \in 1..Len(d.pairs) |->
            IF d.pairs[i].k = k THEN KV(k, v) ELSE d.pairs[i]])

\* nothing popped
strip_record_keep(post) == post

\* post.pop('links', None); post.pop('timestamp', None)
strip_record(post) == pop(pop(post, "links"), "timestamp")

-----------------------------------------------------------------------------
(* filter_json.py: the dates, the four filters *)

\* datetime's > in place of >=
strictly_after(d, cutoff) ==
    \/ d[1] > cutoff[1]
    \/ d[1] = cutoff[1] /\ d[2] > cutoff[2]
    \/ d[1] = cutoff[1] /\ d[2] = cutoff[2] /\ d[3] > cutoff[3]

\* a date is <<year, month, day>>; datetime's >=
on_or_after(d, cutoff) ==
    \/ d[1] > cutoff[1]
    \/ d[1] = cutoff[1] /\ d[2] > cutoff[2]
    \/ d[1] = cutoff[1] /\ d[2] = cutoff[2] /\ d[3] >= cutoff[3]

NoDate == <<0, 0, 0>>

\* the tokens the pattern (?:Jan|...|Dec)\s+\d{1,2},\s+\d{4} matches
date_pattern(tok) ==
    tok \in {"Jun 1, 2024", "May 31, 2024", "Dec 19, 2024", "Feb 30, 2024",
             "Jan 1, 2024", "Dec 31, 2023"}

\* datetime.strptime(tok, '%b %d, %Y'); NoDate where it raises ValueError
strptime_b_d_Y(tok) ==
    CASE tok = "Jun 1, 2024"  -> <<2024, 6, 1>>
      [] tok = "May 31, 2024" -> <<2024, 5, 31>>
      [] tok = "Dec 19, 2024" -> <<2024, 12, 19>>
      [] tok = "Jan 1, 2024"  -> <<2024, 1, 1>>
      [] tok = "Dec 31, 2023" -> <<2023, 12, 31>>
      [] OTHER                -> NoDate

\* datetime.strptime(tok, '%Y-%m-%d'); NoDate where it raises ValueError
strptime_Y_m_d(tok) ==
    CASE tok = "2024-01-01" -> <<2024, 1, 1>>
      [] tok = "2023-12-31" -> <<2023, 12, 31>>
      [] tok = "2024-06-15" -> <<2024, 6, 15>>
      [] OTHER              -> NoDate

\* '-' in tok
has_dash(tok) == tok \in {"2024-01-01", "2023-12-31", "2024-06-15", "2024-13-01"}

\* re.search on the content, strptime on the first match
RECURSIVE extract_date_from_content(_)
extract_date_from_content(content) ==
    IF content = <<>> THEN NoDate
    ELSE IF date_pattern(Head(content)) THEN strptime_b_d_Y(Head(content))
    ELSE extract_date_from_content(Tail(content))

filter_post(post) ==
    IF ~truthy(get(post, "content")) THEN FALSE
    ELSE IF extract_date_from_content(get(post, "content").s) = NoDate THEN FALSE
    ELSE on_or_after(extract_date_from_content(get(post, "content").s),
                     <<2024, 6, 1>>)

filter_publication(pub) ==
    IF ~truthy(get(pub, "date")) THEN FALSE
    ELSE LET tok == get(pub, "date").s[1]
             pub_date == IF has_dash(tok) THEN strptime_Y_m_d(tok)
                         ELSE strptime_b_d_Y(tok)
         IN  pub_date # NoDate /\ on_or_after(pub_date, <<2024, 1, 1>>)

\* the test of the loop over a section
keep(test, rec) ==
    CASE test = "filter_post"        -> filter_post(rec)
      [] test = "filter_publication" -> filter_publication(rec)
      [] test = "every"              -> TRUE

\* the records of items that pass the test, links and timestamp popped
kept_records(items, test) ==
    LET passing == SelectSeq(items, LAMBDA rec : keep(test, rec))
    IN  [i \in 1..Len(passing) |-> strip_record(passing[i])]

\* if key in data: data[key] = [the posts that pass, stripped]
filter_section(doc, key, test) ==
    IF has_key(doc, key)
    THEN put(doc, key, JList(kept_records(get(doc, key).items, test)))
    ELSE doc

\* if key in data and data[key]: pop links and timestamp from the page
strip_page(doc, key) ==
    IF has_key(doc, key) /\ truthy(get(doc, key))
    THEN put(doc, key, strip_record(get(doc, key)))
    ELSE doc

\* if key in data and data[key]: pop the timestamp only
strip_timestamp(doc, key) ==
    IF has_key(doc, key) /\ truthy(get(doc, key))
    THEN put(doc, key, pop(get(doc, key), "timestamp"))
    ELSE doc

filter_anthropic_data(doc) ==
    filter_section(filter_section(doc, "research_posts", "filter_post"),
                   "news_posts", "filter_post")

filter_deepmind_data(doc) ==
    strip_page(strip_page(filter_section(doc, "publications", "filter_publication"),
                          "home"), "about")

filter_cser_data(doc) ==
    filter_section(strip_page(strip_page(doc, "home"), "about"),
                   "resources", "every")

\* for area in post['research_areas']: area.pop('papers', None)
without_papers(post) ==
    IF has_key(post, "research_areas")
    THEN put(post, "research_areas",
             JList([i \in 1..Len(get(post, "research_areas").items) |->
                        pop(get(post, "research_areas").items[i], "papers")]))
    ELSE post

\* the blog posts, papers and timestamp popped
cleaned_posts(items) ==
    [i \in 1..Len(items) |-> pop(without_papers(items[i]), "timestamp")]

filter_chai_data(doc) ==
    LET pages == strip_timestamp(strip_timestamp(doc, "home"), "about")
    IN  IF has_key(pages, "blog_posts")
        THEN put(pages, "blog_posts",
                 JList(cleaned_posts(get(pages, "blog_posts").items)))
        ELSE pages

-----------------------------------------------------------------------------
(* filter_json.py and split_json.py: the files *)

\* a file that is not there, one that may not be read, one that is not JSON
Missing == [kind |-> "missing"]
Unreadable == [kind |-> "unreadable"]
Malformed == [kind |-> "malformed"]
\* a file holding the document json.dump wrote or json.load will build
JsonFile(doc) == [kind |-> "json", value |-> doc]

\* with open(file, 'r') as f: data = json.load(f)
load(file) ==
    CASE file.kind = "missing"    -> Raise("FileNotFoundError")
      [] file.kind = "unreadable" -> Raise("PermissionError")
      [] file.kind = "malformed"  -> Raise("JSONDecodeError")
      [] file.kind = "json"       -> Return(file.value)

\* every source takes the first branch
source_index_lenient(source) == 1

\* the if/elif chain of filter_json: 0 is the else branch
source_index(source) ==
    CASE source = "anthropic" -> 1
      [] source = "deepmind"  -> 2
      [] source = "cser"      -> 3
      [] source = "chai"      -> 4
      [] OTHER                -> 0

input_files == <<"www_anthropic_com_data.json", "deepmind_google_data.json",
                 "www_cser_ac_uk_data.json", "humancompatible_ai_data.json">>

output_files == <<"www_anthropic_com_data_filtered.json",
                  "deepmind_google_data_filtered.json",
                  "www_cser_ac_uk_data_filtered.json",
                  "humancompatible_ai_data_filtered.json">>

filter_func(source, doc) ==
    CASE source_index(source) = 1 -> filter_anthropic_data(doc)
      [] source_index(source) = 2 -> filter_deepmind_data(doc)
      [] source_index(source) = 3 -> filter_cser_data(doc)
      [] source_index(source) = 4 -> filter_chai_data(doc)

\* str.lower() of a command-line word
lower_word(w) ==
    CASE w = "DeepMind" -> "deepmind"
      [] w = "CSER"     -> "cser"
      [] OTHER          -> w

\* open(name, mode)
Open(name, mode) == [name |-> name, mode |-> mode]

\* filter_json(source) on the files `files`: how it ends, the files and the
\* lines printed afterwards, the files it opened
filter_json(source, files) ==
    IF source_index(lower_word(source)) = 0
    THEN [result |-> Raise("ValueError"), fs |-> files, printed |-> <<>>,
          opened |-> <<>>]
    ELSE LET input_file == input_files[source_index(lower_word(source))]
             output_file == output_files[source_index(lower_word(source))]
         IN  IF load(files[input_file]).kind = "raise"
             THEN IF load(files[input_file]).exc = "FileNotFoundError"
                  THEN [result |-> Return(None), fs |-> files,
                        printed |-> <<print("Error: not found", input_file,
                                            "FileNotFoundError")>>,
                        opened |-> <<Open(input_file, "r")>>]
                  ELSE [result |-> Raise(load(files[input_file]).exc),
                        fs |-> files, printed |-> <<>>,
                        opened |-> <<Open(input_file, "r")>>]
             ELSE [result |-> Return(None),
                   fs |-> [files EXCEPT ![output_file] =
                             JsonFile(filter_func(lower_word(source),
                                                  load(files[input_file]).value))],
                   printed |-> <<print("Saved filtered data", output_file,
                                       "none")>>,
                   opened |-> <<Open(input_file, "r"), Open(output_file, "w")>>]

-----------------------------------------------------------------------------
(* split_json.py *)

\* a place in a document: the dict keys and list positions that lead to it
Key(k) == [key |-> k]
Index(i) == [index |-> i]

NoArray == [found |-> FALSE, path |-> <<>>, items |-> <<>>]

\* find_largest_array(obj, current_max): a list replaces current_max where
\* it is strictly longer, and is not searched; a dict is searched value by
\* value in the order of its keys
RECURSIVE find_largest_array(_, _, _)
RECURSIVE find_in_values(_, _, _)
find_largest_array(obj, path, current_max) ==
    IF obj.t = "list"
    THEN IF ~current_max.found \/ Len(obj.items) > Len(current_max.items)
         THEN [found |-> TRUE, path |-> path, items |-> obj.items]
         ELSE current_max
    ELSE IF obj.t = "dict"
    THEN find_in_values(obj.pairs, path, current_max)
    ELSE current_max

find_in_values(pairs, path, current_max) ==
    IF pairs = <<>> THEN current_max
    ELSE find_in_values(Tail(pairs), path,
             find_largest_array(Head(pairs).v, Append(path, Key(Head(pairs).k)),
                                current_max))

\* replace_array_in_structure(obj, new_array): the object at largest.path
\* is the one that `is largest_array`
RECURSIVE replace_array_in_structure(_, _, _, _)
replace_array_in_structure(obj, path, largest, new_array) ==
    IF obj.t = "list" /\ path = largest.path
    THEN JList(new_array)
    ELSE IF obj.t = "dict"
    THEN JDict([i \in 1..Len(obj.pairs) |->
                  KV(obj.pairs[i].k,
                     replace_array_in_structure(obj.pairs[i].v,
                         Append(path, Key(obj.pairs[i].k)), largest, new_array))])
    ELSE IF obj.t = "list"
    THEN JList([i \in 1..Len(obj.items) |->
                  replace_array_in_structure(obj.items[i],
                      Append(path, Index(i)), largest, new_array)])
    ELSE obj

\* a / b rounded down
floor_div(a, b) == a \div b

\* math.ceil(a / b)
ceil_div(a, b) == (a + b - 1) \div b

min(a, b) == IF a < b THEN a ELSE b

\* the rounds of `for i in range(num_parts)` that come before the break
parts_written(total_items, num_parts) ==
    Cardinality({i \in 0..(num_parts - 1) :
                    i * ceil_div(total_items, num_parts) < total_items})

\* part_data of round i (from 0)
part_data(doc, largest, num_parts, i) ==
    LET total_items == Len(largest.items)
        items_per_part == ceil_div(total_items, num_parts)
        start_idx == i * items_per_part
        end_idx == min((i + 1) * items_per_part, total_items)
    IN  replace_array_in_structure(doc, <<>>, largest,
            SubSeq(largest.items, start_idx + 1, end_idx))

\* os.path.splitext(input_file)[0]
splitext(input_file) ==
    CASE input_file = "www_lakera_ai_data.json" -> "www_lakera_ai_data"

\* f"{base_name}_part{i+1}.json"
part_file(input_file, i) == splitext(input_file) \o "_part" \o Digits[i] \o ".json"

\* split_json_file(input_file, num_parts) on the files `files`: how it
\* ends, the files and the lines printed afterwards
split_json_file(input_file, num_parts, files) ==
    IF load(files[input_file]).kind = "raise"
    THEN [result |-> Raise(load(files[input_file]).exc), fs |-> files,
          printed |-> <<>>, opened |-> <<Open(input_file, "r")>>]
    ELSE LET doc == load(files[input_file]).value
             largest == find_largest_array(doc, <<>>, NoArray)
             n == parts_written(Len(largest.items), num_parts)
         IN  IF ~largest.found
             THEN [result |-> Raise("ValueError"), fs |-> files,
                   printed |-> <<>>, opened |-> <<Open(input_file, "r")>>]
             ELSE [result |-> Return(None),
                   fs |-> [name \in DOMAIN files |->
                             IF \E i \in 1..n : name = part_file(input_file, i)
                             THEN JsonFile(part_data(doc, largest, num_parts,
                                     (CHOOSE i \in 1..n :
                                         name = part_file(input_file, i)) - 1))
                             ELSE files[name]],
                   printed |-> [i \in 1..n |->
                                  print("Created", part_file(input_file, i),
                                        "none")],
                   opened |-> <<Open(input_file, "r")>> \o
                              [i \in 1..n |->
                                  Open(part_file(input_file, i), "w")]]

-----------------------------------------------------------------------------
(* filter_json.py and split_json.py run as scripts *)

\* a page, a post or a publication as scrape_all saved it
record(url, fields) ==
    JDict(<<KV("url", JStr(<<url>>)), KV("timestamp", JStr(<<"2025-01-01T00:00:00">>))>>
          \o fields \o <<KV("links", JList(<<JStr(<<"https://x.org">>)>>))>>)

post(url, content) == record(url, <<KV("content", JStr(content))>>)
publication(url, date) == record(url, <<KV("date", date)>>)

anthropic_documents ==
    { JDict(<<KV("home", post("home", <<"Welcome">>)),
              KV("research_posts",
                 JList(<<post("r1", <<"Title", "Jun 1, 2024", "text">>),
                         post("r2", <<"Title", "May 31, 2024", "text">>),
                         post("r3", <<"Dec 19, 2024", "text", "May 31, 2024">>)>>)),
              KV("news_posts",
                 JList(<<post("n1", <<"no", "date">>),
                         post("n2", <<"Feb 30, 2024">>),
                         post("n3", <<>>),
                         post("n4", <<"Dec 31, 2023", "Dec 19, 2024">>)>>))>>),
      JDict(<<KV("research_posts", JList(<<>>))>>) }

deepmind_documents ==
    { JDict(<<KV("home", post("home", <<"Welcome">>)),
              KV("about", JNull),
              KV("publications",
                 JList(<<publication("p1", JStr(<<"2024-01-01">>)),
                         publication("p2", JStr(<<"2023-12-31">>)),
                         publication("p3", JStr(<<"Jan 1, 2024">>)),
                         publication("p4", JStr(<<"2024-13-01">>)),
                         publication("p5", JNull),
                         publication("p6", JStr(<<"2024-06-15">>))>>))>>),
      JDict(<<KV("about", post("about", <<"About">>))>>) }

cser_documents ==
    { JDict(<<KV("home", post("home", <<"Welcome">>)),
              KV("about", post("about", <<"About">>)),
              KV("resources",
                 JList(<<post("c1", <<"Dec 31, 2023">>),
                         post("c2", <<"text">>)>>))>>) }

chai_documents ==
    { JDict(<<KV("home", post("home", <<"Welcome">>)),
              KV("about", JDict(<<>>)),
              KV("blog_posts",
                 JList(<<JDict(<<KV("url", JStr(<<"b1">>)),
                                 KV("timestamp", JStr(<<"2025-01-01T00:00:00">>)),
                                 KV("research_areas",
                                    JList(<<JDict(<<KV("name", JStr(<<"Theory">>)),
                                                    KV("papers", JList(<<JStr(<<"P">>)>>))>>),
                                            JDict(<<KV("name", JStr(<<"Ethics">>))>>)>>))>>),
                         post("b2", <<"text">>)>>))>>) }

numbers(n) == [i \in 1..n |-> JNum(i)]

lakera_documents ==
    { JDict(<<KV("home", post("home", <<"Welcome">>)),
              KV("blog_posts", JList(numbers(13))),
              KV("products", JList(numbers(2)))>>),
      JList(numbers(3)),
      JList(<<>>),
      JList(<<JList(numbers(6)), JNum(1)>>),
      JDict(<<KV("a", JList(<<JDict(<<KV("b", JList(numbers(4)))>>)>>))>>),
      JDict(<<KV("a", JList(numbers(2))), KV("b", JList(numbers(2)))>>),
      JDict(<<KV("a", JList(numbers(1))),
              KV("b", JDict(<<KV("c", JList(numbers(7)))>>))>>),
      JDict(<<KV("home", post("home", <<"Welcome">>))>>),
      JStr(<<"text">>) }

\* the documents a scraper may have saved under each name
documents(name) ==
    CASE name = "www_anthropic_com_data.json"  -> anthropic_documents
      [] name = "deepmind_google_data.json"    -> deepmind_documents
      [] name = "www_cser_ac_uk_data.json"     -> cser_documents
      [] name = "humancompatible_ai_data.json" -> chai_documents
      [] name = "www_lakera_ai_data.json"      -> lakera_documents
      [] OTHER                                 -> {}

num_parts == 5

\* the largest num_parts a caller of split_json_file passes
MaxParts == 6

file_names ==
    range(input_files) \cup range(output_files) \cup {"www_lakera_ai_data.json"}
    \cup {part_file("www_lakera_ai_data.json", i) : i \in 1..MaxParts}

\* the sources a caller of filter_json passes
filter_sources ==
    {"anthropic", "DeepMind", "cser", "chai", "CSER", "openai", "metr", ""}

\* the command lines of filter_json.py
filter_argvs ==
    {<<>>, <<"anthropic">>, <<"DeepMind">>, <<"cser">>, <<"chai">>, <<"CSER">>,
     <<"openai">>, <<"anthropic", "cser">>}

\* one input file is there, in any condition; the others and the outputs
\* are not
\* the scripts, and the two functions called from a program that imports
\* them (argv holds the arguments of the call)
ToolInit ==
    /\ \/ program = "filter_json.py" /\ argv \in filter_argvs
       \/ program = "split_json.py" /\ argv = <<>>
       \/ program = "filter_json" /\ argv \in {<<source>> : source \in filter_sources}
       \/ program = "split_json_file"
            /\ argv \in {<<"www_lakera_ai_data.json", n>> : n \in 1..MaxParts}
    /\ pc = "start"
    /\ \E name \in range(input_files) \cup {"www_lakera_ai_data.json"} :
         \E file \in {Missing, Unreadable, Malformed}
                     \cup {JsonFile(doc) : doc \in documents(name)} :
            fs = [n \in file_names |-> IF n = name THEN file ELSE Missing]
    /\ websites = <<>>
    /\ scrapers = <<>>
    /\ printed = <<>>
    /\ exit_status = -1
    /\ applied = NoApply
    /\ NoSession

\* an exception nothing catches ends the script: the traceback, status 1
Traceback(exc) == print("Traceback", <<>>, exc)

\* the call of filter_json or split_json_file that was made
Made(fn, call) == [fn |-> fn, result |-> call.result, opened |-> call.opened]

\* the end of a program whose last statement is the call
Ends(call) ==
    /\ fs' = call.fs
    /\ IF call.result.kind = "raise"
       THEN /\ printed' = Append(printed \o call.printed,
                                 Traceback(call.result.exc))
            /\ exit_status' = 1
       ELSE /\ printed' = printed \o call.printed
            /\ exit_status' = 0
    /\ pc' = "exit"

\* filter_json.py, if __name__ == "__main__": the command line
FilterArgs ==
    /\ program = "filter_json.py" /\ pc = "start"
    /\ IF Len(argv) # 1
       THEN /\ printed' = Append(printed, print("Usage", <<>>, "none"))
            /\ exit_status' = 1
            /\ pc' = "exit"
       ELSE IF lower_word(argv[1]) \notin {"anthropic", "deepmind", "cser", "chai"}
       THEN /\ printed' = Append(printed, print("Error: Source must be", <<>>, "none"))
            /\ exit_status' = 1
            /\ pc' = "exit"
       ELSE /\ pc' = "filter_json"
            /\ UNCHANGED <<printed, exit_status>>
    /\ UNCHANGED <<program, argv, websites, scrapers, fs, applied, session_vars>>

\* filter_json.py: filter_json(source), the last statement of the script
FilterJson ==
    /\ program = "filter_json.py" /\ pc = "filter_json"
    /\ Ends(filter_json(lower_word(argv[1]), fs))
    /\ applied' = Made("filter_json", filter_json(lower_word(argv[1]), fs))
    /\ UNCHANGED <<program, argv, websites, scrapers, session_vars>>

\* filter_json(source) called from another program
CallFilterJson ==
    /\ program = "filter_json" /\ pc = "start"
    /\ Ends(filter_json(argv[1], fs))
    /\ applied' = Made("filter_json", filter_json(argv[1], fs))
    /\ UNCHANGED <<program, argv, websites, scrapers, session_vars>>

\* split_json_file(input_file, num_parts) called from another program
CallSplitJsonFile ==
    /\ program = "split_json_file" /\ pc = "start"
    /\ Ends(split_json_file(argv[1], argv[2], fs))
    /\ applied' = Made("split_json_file", split_json_file(argv[1], argv[2], fs))
    /\ UNCHANGED <<program, argv, websites, scrapers, session_vars>>

\* except Exception as e
is_exception(exc) ==
    exc \in {"FileNotFoundError", "PermissionError", "JSONDecodeError", "ValueError"}

\* split_json.py, if __name__ == "__main__": the whole script
SplitJson ==
    /\ program = "split_json.py" /\ pc = "start"
    /\ fs' = split_json_file("www_lakera_ai_data.json", num_parts, fs).fs
    /\ IF split_json_file("www_lakera_ai_data.json", num_parts, fs).result.kind = "return"
       THEN /\ printed' = Append(printed \o
                     split_json_file("www_lakera_ai_data.json", num_parts, fs).printed,
                     print("Successfully split", "www_lakera_ai_data.json", "none"))
            /\ exit_status' = 0
       ELSE IF is_exception(split_json_file("www_lakera_ai_data.json", num_parts, fs).result.exc)
       THEN /\ printed' = Append(printed,
                     print("Error", "www_lakera_ai_data.json",
                           split_json_file("www_lakera_ai_data.json", num_parts, fs).result.exc))
            /\ exit_status' = 0
       ELSE /\ printed' = Append(printed,
                     Traceback(split_json_file("www_lakera_ai_data.json", num_parts, fs).result.exc))
            /\ exit_status' = 1
    /\ pc' = "exit"
    /\ applied' = Made("split_json_file",
                       split_json_file("www_lakera_ai_data.json", num_parts, fs))
    /\ UNCHANGED <<program, argv, websites, scrapers, session_vars>>

ToolNext ==
    \/ FilterArgs
    \/ FilterJson
    \/ SplitJson
    \/ CallFilterJson
    \/ CallSplitJsonFile

ToolSpec == ToolInit /\ [][ToolNext]_vars

-----------------------------------------------------------------------------
(* Properties *)

paginating == running /\ stmt.op = "posts" /\ stmt.source = "pages"

\* C1: within one session get_page is invoked at most once per distinct URL
C1_FetchAtMostOnce ==
    \A i, j \in 1..Len(requests) :
        i # j => requests[i].url # requests[j].url

\* C2: scrape_blog_post(url) returns None and issues no request whenever
\* is_blog_post_url(url) is false
C2_RejectedUrlNoWork ==
    last_call.made /\ ~last_call.accepted
        => last_call.result = Return(None) /\ last_call.requests = <<>>

\* C3: scrape_blog_post(url) on a url already in scraped_urls returns None
\* and leaves scraped_urls, data and the requests issued as they were
C3_VisitedUrlNoWork ==
    [][ phase = "items" /\ blog_links # <<>>
        /\ Head(blog_links) \in scraped_urls
            => /\ last_call'.made /\ last_call'.url = Head(blog_links)
               /\ last_call'.result = Return(None)
               /\ scraped_urls' = scraped_urls
               /\ data' = data
               /\ requests' = requests ]_vars

C3_Witness ==
    /\ last_call.made /\ last_call.seen
    /\ last_call.result = Return(None)
    /\ last_call.url \in scraped_urls

\* C4: no exception raised while extracting a fetched page leaves scrape_all
C4_ExtractionNeverAborts == raised = "none"

\* C5: when get_page returns None for a discovered URL the call yields no
\* record, and the run is not aborted afterwards: the remaining URLs are
\* attempted and the document is persisted
C5_ItemFetchFailureNonFatal ==
    /\ (last_call.made /\ last_call.requests # <<>>
        /\ last_call.soup = Return(None))
            => last_call.result = Return(None)
    /\ (\E i \in 1..Len(requests) : requests[i].item /\ ~requests[i].ok)
            => raised = "none"

\* C6: get_page never raises; it returns None on a transport error or a
\* non-success status and the parsed document on success
C6_GetPageNeverRaises ==
    last_fetch.response # "none"
        => /\ last_fetch.result.kind = "return"
           /\ last_fetch.response \in {"transport_error", "http_error"}
                => last_fetch.result.value = None
           /\ last_fetch.response = "ok" => last_fetch.result.value # None

C6_Witness ==
    /\ last_fetch.response = "http_error"
    /\ last_fetch.result = Return(None)
    /\ requests # <<>> /\ ~requests[Len(requests)].ok

\* C7: scrape_blog_post returns None, and does not raise, when the page was
\* fetched but holds no content container
C7_NoContainerReturnsNone ==
    (/\ last_call.made /\ last_call.requests # <<>>
     /\ last_call.soup.kind = "return" /\ last_call.soup.value # None
     /\ ~last_call.soup.value.container)
        => last_call.result = Return(None)

\* C8: in a run of scrape_all that completes save_to_json writes the
\* document exactly once, and no get_page call and no change of data
\* follows the write
C8_WriteOnceAtEnd ==
    /\ [](done => Len(written) = 1 /\ written[1] = data)
    /\ [][ written # <<>>
            => requests' = requests /\ data' = data /\ written' = written ]_vars

C8_Witness ==
    /\ done
    /\ written = <<data>>
    /\ \E i \in 1..Len(requests) : requests[i].item /\ requests[i].ok

\* page i of the listing was fetched, with items and a next-page control
\* that leads to page i + 1
full_page(i) ==
    /\ i <= Len(listing)
    /\ listing[i].has_items /\ listing[i].next_page = i + 1

\* C9: when pages 1 and 2 of a paginated listing have items and a next-page
\* control and page 3 has neither, discovery fetches pages 1, 2 and 3, stops
\* after page 3 and has discovered the content URLs of pages 1 and 2
C9_PaginationTerminates ==
    paginating =>
        /\ full_page(1)
            => listing[1].url = stmt.url /\ listing[1].stop = ""
        /\ full_page(1) /\ full_page(2)
            => /\ listing[2].url = page_url(scraper, stmt.url, 2)
               /\ listing[2].stop = ""
        /\ full_page(1) /\ full_page(2) /\ Len(listing) >= 3
           /\ ~listing[3].has_items /\ listing[3].next_page = 0
            => /\ listing[3].url = page_url(scraper, stmt.url, 3)
               /\ Len(listing) = 3
               /\ phase = "items"
               /\ discovered = listing[1].links \cup listing[2].links

C9_Witness ==
    /\ paginating /\ phase = "items"
    /\ full_page(1) /\ full_page(2) /\ Len(listing) = 3
    /\ ~listing[3].has_items /\ listing[3].next_page = 0
    /\ listing[3].stop # "not soup"
    /\ Cardinality(discovered) = 2
    /\ Len(blog_links) = 2

\* C10: no listing page is requested after a listing page that yields no
\* items or has no next-page control
C10_StopsOnFirstEmptyPage ==
    paginating =>
        \A i \in 1..Len(listing) :
            ~listing[i].has_items \/ listing[i].next_page = 0
                => i = Len(listing) /\ listing[i].stop # ""

\* content_elements as it stands before the join, for each of the three
\* ways of assembling ("all" where no element rendered as None)
fragments(how, self_base_url, elems) ==
    CASE how = "unique" -> unique_strs(extracted(self_base_url, elems), <<>>)
      [] how = "kept"   -> strs_of(SelectSeq(extracted(self_base_url, elems), Truthy))
      [] OTHER          -> strs_of(extracted(self_base_url, elems))

\* content_elements of the call scrape_blog_post(url) on a page with `elems`
call_fragments(a, url, elems) ==
    fragments(IF a = "CHAIScraper" THEN assembly(a, chai_page(url))
              ELSE post_assembly(a),
              base_url(a), elems)

\* C16: the fragments joined into the content field of a record hold no
\* empty string and no string twice
C16_NoEmptyNoRepeat ==
    (/\ last_call.made
     /\ last_call.soup.kind = "return" /\ last_call.soup.value # None
     /\ last_call.soup.value.container
     /\ last_call.result.kind = "return" /\ last_call.result.value # None)
        => /\ last_call.result.value.content =
                join("\n\n", call_fragments(scraper, last_call.url,
                                            last_call.soup.value.elems))
           /\ \A i, j \in 1..Len(call_fragments(scraper, last_call.url,
                                                 last_call.soup.value.elems)) :
                /\ call_fragments(scraper, last_call.url,
                                  last_call.soup.value.elems)[i] # ""
                /\ i # j =>
                    call_fragments(scraper, last_call.url,
                                   last_call.soup.value.elems)[i]
                    # call_fragments(scraper, last_call.url,
                                     last_call.soup.value.elems)[j]

\* the list sections that hold page records (research_areas holds the
\* names of the filter buttons)
record_keys(a) == list_keys(a) \ {"research_areas"}

mandatory == {"url", "timestamp", "content", "headings"}

\* C15: every page record in self.data, in a single-page section or in a
\* list section, has the fields url, timestamp, content and headings
C15_MandatoryFields ==
    /\ \A k \in page_keys(scraper) :
        data[k] # None => mandatory \subseteq DOMAIN data[k]
    /\ \A k \in record_keys(scraper) :
        \A i \in 1..Len(data[k]) : mandatory \subseteq DOMAIN data[k][i]

\* a record returned early, for a page without its container, is stored
C15_Witness ==
    /\ last_call.made /\ last_call.requests # <<>>
    /\ last_call.soup.kind = "return" /\ last_call.soup.value # None
    /\ ~last_call.soup.value.container
    /\ last_call.result.kind = "return" /\ last_call.result.value # None
    /\ \E k \in record_keys(scraper) :
        /\ data[k] # <<>>
        /\ data[k][Len(data[k])] = last_call.result.value
        /\ data[k][Len(data[k])].content = ""
    /\ \E k \in page_keys(scraper) : data[k] # None

-----------------------------------------------------------------------------
(* Properties of the functions applied on their own (UnitSpec) *)

\* the branches of create_scraper whose fragment is in the string
matching(website_url) ==
    {i \in 1..Len(create_scraper_table) :
        contains(website_url, create_scraper_table[i].fragment)}

\* C11: create_scraper raises ValueError, and builds no adapter, for a string
\* holding none of the ten fragments; otherwise it returns the adapter of
\* the first fragment in table order that the string holds; no request is
\* issued either way
C11_CreateScraper ==
    (applied.fn = "create_scraper" /\ applied.done) =>
        /\ requests = <<>>
        /\ (matching(applied.url) = {})
            => (applied.result = Raise("ValueError") /\ scraper = "none")
        /\ \A i \in matching(applied.url) :
            (\A j \in matching(applied.url) : i <= j)
                => /\ applied.result = Return(create_scraper_table[i].scraper)
                   /\ scraper = create_scraper_table[i].scraper

C11_Witness ==
    /\ applied.fn = "create_scraper" /\ applied.done
    /\ applied.url # <<>>
    /\ matching(applied.url) = {}
    /\ applied.result = Raise("ValueError")
    /\ requests = <<>>

\* C14: is_blog_post_url returns false for the URL of a listing page of
\* its adapter and for that URL with a final slash, a query string or a
\* fragment added
C14_ListingVariantsRejected ==
    (/\ applied.fn = "is_blog_post_url" /\ applied.done
     /\ \E l \in listing_urls(applied.self) : applied.url \in variants(l))
        => applied.result = Return(FALSE)

rendered == applied.fn = "extract_text_content" /\ applied.done

\* C17: extract_text_content returns a string for every kind of node and
\* both values of with_links, also for a node without text
C17_RendersString ==
    rendered => applied.result.value # None

\* the li children of a list node
own_items(element) == SelectSeq(element.kids, LAMBDA k : k.name = "li")

\* C18: a ul/ol node renders as one line "- text" for each of its items
\* whose stripped text is not empty, in document order, joined by newlines
C18_ListRendering ==
    (rendered /\ applied.element.name \in {"ul", "ol"})
        => applied.result.value =
                Str(join("\n", item_lines(own_items(applied.element))))

\* a URL with a scheme and a host
absolute(u) == Len(u) >= 2 /\ u[1] \in Schemes

\* C19: with with_links set, an anchor with an href and a text renders as
\* [text](URL), the URL being the href resolved against base_url (href
\* ../about against https://x.org/blog/ gives https://x.org/about); an
\* anchor without href or without text renders as its bare text
C19_LinkRendering ==
    (rendered /\ applied.element.name = "a" /\ applied.with_links)
        => /\ (applied.element.href # <<>> /\ get_text(applied.element) # "")
                => /\ absolute(urljoin(applied.base_url, applied.element.href))
                   /\ applied.result.value =
                        Str("[" \o get_text(applied.element) \o "]("
                            \o UrlStr(urljoin(applied.base_url,
                                              applied.element.href)) \o ")")
           /\ (applied.element.href = <<>> \/ get_text(applied.element) = "")
                => applied.result.value = Str(get_text(applied.element))
           /\ (applied.element = A_About
                /\ applied.base_url = <<"https://", "x.org", "/", "blog", "/">>)
                => applied.result.value = Str("[About](https://x.org/about)")

C19_Witness ==
    /\ rendered /\ applied.with_links
    /\ applied.element = A_About
    /\ applied.base_url = <<"https://", "x.org", "/", "blog", "/">>
    /\ applied.result = Return(Str("[About](https://x.org/about)"))

-----------------------------------------------------------------------------
(* Properties of the script (MainSpec) *)

\* C12: an exception that leaves create_scraper or scrape_all for one
\* website is caught and reported, the websites are handled one after
\* another in list order, and the script ends only after every website of
\* the list has had its scraper created and run
C12_BatchIsolation ==
    /\ Len(scrapers) <= Len(websites)
    /\ \A i \in 1..Len(scrapers) :
        /\ scrapers[i].website = websites[i]
        /\ create_scraper(websites[i]) = Return(scrapers[i].scraper)
        /\ (scrapers[i].raised # "none")
            => \E k \in 1..Len(printed) :
                printed[k] = print("Error scraping", websites[i],
                                   scrapers[i].raised)
    /\ (pc = "exit" /\ scrapers # <<>>)
        => (Len(scrapers) = Len(websites) /\ exit_status = 0)

C12_Witness ==
    /\ pc = "exit"
    /\ Len(scrapers) = 10
    /\ scrapers[1].raised = "TypeError"
    /\ scrapers[2].raised = "IndexError"
    /\ scrapers[3].raised = "none"
    /\ scrapers[10].raised = "none"

\* the short names the argument dispatch looks for
known_names ==
    {"metr", "aisi", "lakera", "nist", "canada", "ised", "apollo",
     "anthropic", "deepmind", "cser", "chai"}

-----------------------------------------------------------------------------
(* Properties of filter_json.py and split_json.py (ToolSpec) *)

\* the script got as far as reading a file
reads_input ==
    \/ program = "split_json.py"
    \/ program = "filter_json.py" /\ Len(argv) = 1
          /\ source_index(lower_word(argv[1])) # 0

\* the file it reads
the_input ==
    IF program = "filter_json.py"
    THEN input_files[source_index(lower_word(argv[1]))]
    ELSE "www_lakera_ai_data.json"

\* the files the scripts write
the_outputs == DOMAIN fs \ (range(input_files) \cup {"www_lakera_ai_data.json"})

\* the failure was printed, as a message or as a traceback
reported == \E i \in 1..Len(printed) : printed[i].exc # "none"

\* C20: when filter_json.py or split_json.py ends on an input file that is
\* missing, unreadable or not JSON, the failure was reported, the exit
\* status is not zero and no output file was written.
C20_BadInputIsFatal ==
    (pc = "exit" /\ reads_input /\ fs[the_input].kind # "json") =>
        /\ reported
        /\ exit_status # 0
        /\ \A name \in the_outputs : fs[name] = Missing

\* the names filter_json knows, in lower case
supported_sources == {"anthropic", "deepmind", "cser", "chai"}

\* no output file is there
nothing_written == \A name \in the_outputs : fs[name] = Missing

\* C21: filter_json(source) with a source that is none of anthropic,
\* deepmind, cser, chai in any letter case raises ValueError and has opened
\* no file; filter_json.py given such a source prints the error and exits
\* with status 1 without calling filter_json. No file is written.
C21_UnsupportedSourceFailsFirst ==
    /\ (program = "filter_json" /\ pc = "exit"
          /\ lower_word(argv[1]) \notin supported_sources) =>
            /\ applied.fn = "filter_json"
            /\ applied.result = Raise("ValueError")
            /\ applied.opened = <<>>
            /\ printed = <<Traceback("ValueError")>>
            /\ nothing_written
    /\ (program = "filter_json.py" /\ pc = "exit" /\ Len(argv) = 1
          /\ lower_word(argv[1]) \notin supported_sources) =>
            /\ applied = NoApply
            /\ printed = <<print("Error: Source must be", <<>>, "none")>>
            /\ exit_status = 1
            /\ nothing_written

\* filter_json("openai") has ended while the Anthropic file was there
C21_Witness ==
    /\ program = "filter_json" /\ pc = "exit" /\ argv = <<"openai">>
    /\ fs["www_anthropic_com_data.json"].kind = "json"

\* filter_json has read a document, filtered it and written the result
filtered ==
    /\ program \in {"filter_json.py", "filter_json"} /\ pc = "exit"
    /\ applied.fn = "filter_json"
    /\ applied.result.kind = "return"
    /\ Len(applied.opened) = 2

\* the document read and the document written
input_doc == fs[applied.opened[1].name].value
output_doc == fs[applied.opened[2].name].value

\* the records of a section of a document (none where the key is not there)
section(doc, key) == IF has_key(doc, key) THEN get(doc, key).items ELSE <<>>

\* the record is in the section of the output, by its url
in_output(key, rec) ==
    \E i \in 1..Len(section(output_doc, key)) :
        get(section(output_doc, key)[i], "url") = get(rec, "url")

\* days since a fixed day, in a calendar of 31-day months
days(d) == (d[1] * 12 + d[2]) * 31 + d[3]

\* the first date of the content of a post; the date field of a publication
post_date(rec) ==
    IF truthy(get(rec, "content"))
    THEN extract_date_from_content(get(rec, "content").s) ELSE NoDate
publication_date(rec) ==
    IF ~truthy(get(rec, "date")) THEN NoDate
    ELSE IF has_dash(get(rec, "date").s[1])
    THEN strptime_Y_m_d(get(rec, "date").s[1])
    ELSE strptime_b_d_Y(get(rec, "date").s[1])

\* C22: a research or news post is in the output if and only if the first
\* recognised date of its content is 2024-06-01 or later, a publication if
\* and only if its date field parses to 2024-01-01 or later; a record dated
\* the cutoff day is kept, one dated the day before is dropped, and one
\* with no date that parses is dropped.
C22_CutoffBoundary ==
    filtered =>
      /\ applied.opened[1].name = "www_anthropic_com_data.json" =>
           \A key \in {"research_posts", "news_posts"} :
             \A i \in 1..Len(section(input_doc, key)) :
               LET rec == section(input_doc, key)[i] IN
               /\ in_output(key, rec) <=>
                    (post_date(rec) # NoDate
                       /\ days(post_date(rec)) >= days(<<2024, 6, 1>>))
               /\ post_date(rec) = <<2024, 6, 1>> => in_output(key, rec)
               /\ post_date(rec) = <<2024, 5, 31>> => ~in_output(key, rec)
      /\ applied.opened[1].name = "deepmind_google_data.json" =>
           \A i \in 1..Len(section(input_doc, "publications")) :
             LET rec == section(input_doc, "publications")[i] IN
             /\ in_output("publications", rec) <=>
                  (publication_date(rec) # NoDate
                     /\ days(publication_date(rec)) >= days(<<2024, 1, 1>>))
             /\ publication_date(rec) = <<2024, 1, 1>> =>
                    in_output("publications", rec)
             /\ publication_date(rec) = <<2023, 12, 31>> =>
                    ~in_output("publications", rec)

\* a document with posts dated the cutoff day, the day before and not at
\* all was filtered: two of its three research posts are in the output
C22_Witness ==
    /\ filtered
    /\ applied.opened[1].name = "www_anthropic_com_data.json"
    /\ Len(section(input_doc, "research_posts")) = 3
    /\ Len(section(output_doc, "research_posts")) = 2
    /\ Len(section(input_doc, "news_posts")) = 4
    /\ Len(section(output_doc, "news_posts")) = 0

\* the keys of a record, in order
keys_of(rec) == [i \in 1..Len(rec.pairs) |-> rec.pairs[i].k]

\* where the j-th record of the section of the output is in the input
came_from(key, j) ==
    CHOOSE i \in 1..Len(section(input_doc, key)) :
        get(section(input_doc, key)[i], "url")
            = get(section(output_doc, key)[j], "url")

\* C23: every record of research_posts, news_posts and publications in the
\* output has no links and no timestamp field, has every other field of
\* the input record with the same value and in the same order, and the
\* records of a section are in the order they had in the input.
C23_KeptRecordsStripped ==
    (filtered /\ applied.opened[1].name
                   \in {"www_anthropic_com_data.json", "deepmind_google_data.json"}) =>
      \A key \in {"research_posts", "news_posts", "publications"} :
        \A j \in 1..Len(section(output_doc, key)) :
          LET out == section(output_doc, key)[j] IN
          /\ in_output(key, out)
          /\ \E i \in 1..Len(section(input_doc, key)) :
                 get(section(input_doc, key)[i], "url") = get(out, "url")
          /\ ~has_key(out, "links") /\ ~has_key(out, "timestamp")
          /\ keys_of(out) = SelectSeq(keys_of(section(input_doc, key)[came_from(key, j)]),
                                      LAMBDA k : k \notin {"links", "timestamp"})
          /\ \A k \in range(keys_of(out)) :
                 get(out, k) = get(section(input_doc, key)[came_from(key, j)], k)
          /\ \A j2 \in 1..Len(section(output_doc, key)) :
                 j < j2 => came_from(key, j) < came_from(key, j2)

\* the publications p1, p3 and p6 of six were kept, in that order
C23_Witness ==
    /\ filtered
    /\ applied.opened[1].name = "deepmind_google_data.json"
    /\ Len(section(input_doc, "publications")) = 6
    /\ [j \in 1..Len(section(output_doc, "publications")) |->
            get(section(output_doc, "publications")[j], "url").s]
         = <<<<"p1">>, <<"p3">>, <<"p6">>>>
    /\ \A i \in 1..6 : has_key(section(input_doc, "publications")[i], "links")

\* split_json_file has returned
split_done ==
    /\ program \in {"split_json.py", "split_json_file"} /\ pc = "exit"
    /\ applied.fn = "split_json_file"
    /\ applied.result.kind = "return"

\* the number of parts asked for
asked_parts == IF program = "split_json.py" THEN 5 ELSE argv[2]

\* the document that was split, the array chosen in it, the parts written
source_doc == fs[applied.opened[1].name].value
target == find_largest_array(source_doc, <<>>, NoArray)
parts == [j \in 1..(Len(applied.opened) - 1) |-> fs[applied.opened[j + 1].name].value]

\* what a document holds at a path of keys
RECURSIVE value_at(_, _)
value_at(doc, path) ==
    IF path = <<>> THEN doc
    ELSE value_at(get(doc, Head(path).key), Tail(path))

\* the document with what it holds at the path taken out
RECURSIVE blank(_, _)
blank(doc, path) ==
    IF path = <<>> THEN JNull
    ELSE JDict([i \in 1..Len(doc.pairs) |->
                  IF doc.pairs[i].k = Head(path).key
                  THEN KV(doc.pairs[i].k, blank(doc.pairs[i].v, Tail(path)))
                  ELSE doc.pairs[i]])

\* the chunk of the j-th part, and the first j chunks one after another
chunk(j) == value_at(parts[j], target.path).items
RECURSIVE chunks_up_to(_)
chunks_up_to(j) == IF j = 0 THEN <<>> ELSE chunks_up_to(j - 1) \o chunk(j)

\* the least c with c * n >= total
least_size(total, n) == CHOOSE c \in 0..total : c * n >= total /\ (c = 0 \/ (c - 1) * n < total)

\* C24: the parts written hold contiguous chunks of the chosen array, each
\* of ceil(len / N) items but the last, which holds the rest (13 items in 5
\* parts: 3, 3, 3, 3, 1); the chunks of the parts in part order, one after
\* another, are the array; each part is the document apart from the array.
C24_SplitRoundTrip ==
    split_done =>
      /\ \A j \in 1..Len(parts) :
           /\ applied.opened[j + 1] = Open(part_file(applied.opened[1].name, j), "w")
           /\ Len(chunk(j)) =
                IF j < Len(parts)
                THEN least_size(Len(target.items), asked_parts)
                ELSE Len(target.items)
                       - (Len(parts) - 1) * least_size(Len(target.items), asked_parts)
           /\ Len(chunk(j)) >= 1
           /\ blank(parts[j], target.path) = blank(source_doc, target.path)
      /\ chunks_up_to(Len(parts)) = target.items
      /\ (Len(target.items) = 13 /\ asked_parts = 5) =>
             [j \in 1..Len(parts) |-> Len(chunk(j))] = <<3, 3, 3, 3, 1>>

\* split_json.py has split the array of 13 items of a document into 5 parts
C24_Witness ==
    /\ split_done /\ program = "split_json.py"
    /\ target.path = <<Key("blog_posts")>>
    /\ Len(target.items) = 13
    /\ Len(parts) = 5

\* C25: split_json_file(input, N) writes N part files, whatever the length
\* of the chosen array and whatever N >= 1.
C25_WritesNParts ==
    split_done => Len(parts) = asked_parts

max2(a, b) == IF a > b THEN a ELSE b

\* the length of the longest array anywhere in a document, -1 without one
RECURSIVE longest(_)
RECURSIVE longest_among(_)
longest(doc) ==
    IF doc.t = "list" THEN max2(Len(doc.items), longest_among(doc.items))
    ELSE IF doc.t = "dict"
    THEN longest_among([i \in 1..Len(doc.pairs) |-> doc.pairs[i].v])
    ELSE -1
longest_among(docs) ==
    IF docs = <<>> THEN -1
    ELSE max2(longest(Head(docs)), longest_among(Tail(docs)))

\* C26: the array split_json_file chooses is the longest array anywhere in
\* the document, inside dict values and inside list elements alike: no
\* array of the document is longer.
C26_LongestArrayAnywhere ==
    split_done => Len(target.items) = longest(source_doc)

-----------------------------------------------------------------------------
(* Further properties of a session (Spec) *)

\* the get_page calls a step makes
new_requests == SubSeq(requests', Len(requests) + 1, Len(requests'))

\* C27: scraped_urls only grows; the url of a content page is in
\* scraped_urls once the fetch was made, whether the fetch failed or not;
\* and no url that is in scraped_urls is fetched again, however often it
\* is discovered.
C27_ScrapedUrlsOnlyGrows ==
    [][ /\ scraped_urls \subseteq scraped_urls'
        /\ \A i \in 1..Len(new_requests) :
             /\ new_requests[i].item => new_requests[i].url \in scraped_urls'
             /\ new_requests[i].url \notin scraped_urls ]_vars

\* a url whose fetch had failed was handed to scrape_blog_post again, which
\* returned None without a request
C27_Witness ==
    /\ last_call.made /\ last_call.seen
    /\ last_call.requests = <<>>
    /\ \E i \in 1..Len(requests) :
         requests[i].item /\ ~requests[i].ok /\ requests[i].url = last_call.url

\* C29: in DeepMindScraper.scrape_publications the page number requested
\* strictly increases from one round of the loop to the next, whatever
\* number the link after the current-page marker carries, so that no
\* listing page is fetched twice.
C29_PageStrictlyIncreases ==
    (paginating /\ scraper = "DeepMindScraper") =>
        /\ \A i \in 1..(Len(listing) - 1) : listing[i].page < listing[i + 1].page
        /\ \A i, j \in 1..Len(listing) : i # j => listing[i].url # listing[j].url
        /\ \A i \in 1..Len(listing) : listing[i].stop = "" => listing[i].page < page

\* the records of the list sections of self.data, each by section and place
list_records ==
    {r \in record_keys(scraper) \X (1..(MaxHardcoded + MaxListingPages + 2)) :
        r[2] <= Len(data[r[1]])}

\* C28: at every moment of a session the records of the list sections of
\* self.data have urls that differ from one another, within a section and
\* across sections; every such url is in scraped_urls; and there are at
\* most as many records as urls in scraped_urls.
C28_ListRecordsDistinct ==
    scraper # "none" =>
      /\ \A k \in record_keys(scraper) :
           Len(data[k]) <= MaxHardcoded + MaxListingPages + 2
      /\ \A r, q \in list_records :
           r # q => data[r[1]][r[2]].url # data[q[1]][q[2]].url
      /\ \A r \in list_records : data[r[1]][r[2]].url \in scraped_urls
      /\ Cardinality(list_records) <= Cardinality(scraped_urls)

\* a url that has its record in a list section was discovered again and
\* handed to scrape_blog_post, which returned None
C28_Witness ==
    /\ scraper # "none"
    /\ last_call.made /\ last_call.seen
    /\ last_call.result = Return(None)
    /\ \E r \in list_records : data[r[1]][r[2]].url = last_call.url

-----------------------------------------------------------------------------
(* Further properties of the functions applied on their own (UnitSpec) *)

\* the string t is part of the string s
occurs(t, s) ==
    \E i \in 1..(Len(s) - Len(t) + 1) : SubSeq(s, i, i + Len(t) - 1) = t

\* a node that is no table, list, blockquote, pre, code or link
generic(element) ==
    element.name \notin {"table", "ul", "ol", "blockquote", "pre", "code", "a",
                         "#text"}

\* C30: a generic element that holds a link, rendered with with_links set,
\* keeps every text run its rendering without with_links has: also the
\* text inside child elements that are no links, and the text of links
\* that are not direct children.
C30_InlineContextKept ==
    (rendered /\ applied.with_links /\ generic(applied.element)
       /\ find_all(applied.element, {"a"}) # <<>>) =>
        \A t \in range(texts_of(descendants(applied.element))) :
            /\ occurs(t, extract_text_content(applied.base_url, applied.element,
                                              FALSE).str)
            /\ occurs(t, applied.result.value.str)

====
